---- MODULE Spec2Model ----
(***************************************************************************)
(* A model of the download engine of Vortex:                               *)
(*   src/src/extensions/download_management/DownloadManager.ts             *)
(* The DownloadManager (queue, busy table, scheduler, filename             *)
(* reservation) and its DownloadWorkers, as a state machine whose steps    *)
(* are the turns of the single-threaded event loop: one action per public  *)
(* call, promise continuation, timer or stream event.                      *)
(***************************************************************************)
EXTENDS Integers, Sequences, FiniteSets, TLC

(***************************************************************************)
(* Bounds of the model.                                                    *)
(***************************************************************************)
MaxDownloads == 2      \* download ids handed to enqueue / resume
MaxWorkers == 1        \* the manager's maxWorkers setting
MaxChunks == 2         \* the manager's maxChunks setting
MaxStarts == 2         \* chunk starts explored (mNextId is capped here)
MaxRetries == 1        \* retries of a request explored for one worker
MaxFile == 5           \* the largest file, in blocks, whose layout is explored

(* Program constants, scaled down: sizes are counted in blocks.            *)
MinChunkSize == 1          \* this.mMinChunkSize = 20 * 1024 * 1024
BUFFER_SIZE == 1           \* DownloadWorker.BUFFER_SIZE = 256 * 1024
BUFFER_SIZE_CAP == 2       \* DownloadWorker.BUFFER_SIZE_CAP = 4 * 1024 * 1024
MAX_REDIRECT_FOLLOW == 2
\* line 938: a worker is restarted when its count of starving samples exceeds
SLOW_LIMIT == 15

DlIds == 1..MaxDownloads

VARIABLES
  fs,              \* names of the files that exist in the download directory
  res,             \* per enqueue call: the state of its unusedName reservation
  mFileExistsCB,   \* TRUE once setFileExistsCB registered a callback
  mQueue,          \* DownloadManager.mQueue: sequence of download ids
  downloads,       \* the IRunningDownload objects, by id
  mBusyWorkers,    \* keys of DownloadManager.mBusyWorkers
  workers,         \* the DownloadWorker objects, by worker id
  pending,         \* startJob continuations waiting on download.assemblerProm
  mNextId,         \* DownloadManager.mNextId
  ret,             \* per download id: what the last public call returned
  mMaxWorkers,     \* DownloadManager.mMaxWorkers
  mMaxChunks       \* DownloadManager.mMaxChunks

vars == <<fs, res, mFileExistsCB, mQueue, downloads, mBusyWorkers, workers,
          pending, mNextId, ret, mMaxWorkers, mMaxChunks>>

\* the settings the constructor takes (lines 587-595)
settings == <<mMaxWorkers, mMaxChunks>>

Min(a, b) == IF a < b THEN a ELSE b
Max(a, b) == IF a > b THEN a ELSE b

(***************************************************************************)
(* File names.  A name is the sequence of its dot-separated components:    *)
(* "mod.1.zip" is <<"mod", "1", "zip">>, so that a suffixed candidate of   *)
(* one name can be the same file as another plain name.                    *)
(***************************************************************************)
NoName == <<"*undefined*">>
Digits == <<"1", "2", "3", "4", "5", "6", "7", "8", "9">>
ToStr(n) == Digits[n]

\* path.extname / path.basename(fileName, ext)
extname(name) == IF Len(name) >= 2 THEN <<name[Len(name)]>> ELSE <<>>
basename(name) == IF Len(name) >= 2 THEN SubSeq(name, 1, Len(name) - 1) ELSE name
\* `${base}.${counter}${ext}`
tryName(base, counter, ext) == base \o <<ToStr(counter)>> \o ext

\* sanitizeFilename followed by the replacement of the empty name
sanitized(name) == IF name = <<>> THEN <<"unnamed">> ELSE name

ModZip == <<"mod", "zip">>
Mod1Zip == <<"mod", "1", "zip">>
Mod2Zip == <<"mod", "2", "zip">>
Deferred == <<"deferred">>

\* files that may exist in the download directory before the manager starts
ExistingFiles == {ModZip, Mod1Zip}

(***************************************************************************)
(* URLs.  Of a URL the model keeps what enqueue reads: the basename of its *)
(* path and whether decodeURI throws on it.                                *)
(***************************************************************************)
UrlMod == [base |-> ModZip, malformed |-> FALSE]
UrlDir == [base |-> <<>>, malformed |-> FALSE]
UrlBad == [base |-> <<"%E0">>, malformed |-> TRUE]
Urls == {UrlMod, UrlDir, UrlBad}

RedownloadModes == {"always", "never", "ask", "replace"}

(***************************************************************************)
(* unusedName: the reservation loop.                                       *)
(***************************************************************************)
IdleRes ==
  [pc |-> "idle", fileName |-> NoName, base |-> NoName, ext |-> <<>>,
   counter |-> 0, first |-> TRUE, fullPath |-> NoName, redownload |-> "ask",
   result |-> "", created |-> {}, collided |-> FALSE, branch |-> "",
   explicit |-> FALSE, origName |-> NoName, answer |-> "none"]

\* lines 1233-1247: the state of the closure before the first loop()
unusedName(fileName, redownload) ==
  LET name == sanitized(fileName) IN
  [IdleRes EXCEPT !.pc = "open", !.fileName = name,
                  !.ext = extname(name), !.base = basename(name),
                  !.counter = 0, !.first = TRUE, !.fullPath = name,
                  !.redownload = redownload]

\* a counter that is incremented twice per failure
nextCandidateSkipping(r) ==
  [r EXCEPT !.counter = r.counter + 2,
            !.fullPath = tryName(r.base, r.counter + 2, r.ext)]

\* lines 1263-1265: every failure first moves on to the next candidate
nextCandidate(r) ==
  [r EXCEPT !.counter = r.counter + 1,
            !.fullPath = tryName(r.base, r.counter + 1, r.ext)]

\* lines 1266-1288: openAsync failed with EEXIST.  collided and branch
\* record that the first candidate existed and which branch of the
\* redownload switch was taken.
onEEXIST(r, cb) ==
  LET n == [nextCandidate(r) EXCEPT
              !.collided = IF r.counter = 0 THEN TRUE ELSE @]
  IN
  IF n.first /\ cb
  THEN LET t == [n EXCEPT !.first = FALSE, !.branch = n.redownload] IN
       CASE n.redownload = "always" -> [t EXCEPT !.pc = "open"]
         [] n.redownload = "never" ->
              [t EXCEPT !.pc = "rejected", !.result = "AlreadyDownloaded"]
         [] n.redownload = "replace" -> [t EXCEPT !.pc = "resolved"]
         [] OTHER -> [t EXCEPT !.pc = "ask"]
  ELSE [n EXCEPT !.pc = "open"]

\* lines 1289-1291: any other failure of openAsync or closeAsync
onOtherError(r) ==
  [nextCandidate(r) EXCEPT !.pc = "rejected", !.result = "FsError"]

\* an answer that is not looked at
onAnswerIgnored(r, cont) == [r EXCEPT !.pc = "open"]

\* lines 1276-1285: the answer of mFileExistsCB
onAnswer(r, cont) ==
  IF cont THEN [r EXCEPT !.pc = "open"]
  ELSE [r EXCEPT !.pc = "rejected", !.result = "UserCanceled"]

(***************************************************************************)
(* The manager's data: IRunningDownload, IDownloadJob, DownloadWorker.     *)
(***************************************************************************)
NoDownload ==
  [used |-> FALSE, origName |-> NoName, tempName |-> NoName,
   finalName |-> NoName, error |-> FALSE, received |-> 0, size |-> -1,
   chunks |-> <<>>, chunkable |-> "unknown", asm |-> "none",
   headers |-> "none", redownload |-> "ask", finishCB |-> 0, failedCB |-> 0,
   closing |-> 0, remote |-> 0, ranges |-> FALSE, urlKind |-> "ok",
   file |-> {}, cancelled |-> FALSE, expired |-> FALSE, outOfOrder |-> FALSE,
   rename |-> [pc |-> "none", fileName |-> <<>>, resolvedName |-> <<>>,
               oldTempName |-> <<>>],
   result |-> [hadErrors |-> FALSE, unfinishedChunks |-> {}]]

\* lines 859-881
initChunk ==
  [state |-> "init", workerId |-> -1, offset |-> 0, size |-> MinChunkSize,
   received |-> 0, confirmedOffset |-> 0, confirmedSize |-> MinChunkSize,
   confirmedReceived |-> 0, responseCB |-> "updateDownload", errorCB |-> TRUE]

\* lines 126-133: the fields of a DownloadWorker that has not been
\* constructed.  pc is the event the worker waits for: "url" (job.url()),
\* "cookies", "request" (the response), "stream" (the body), "wait" (the
\* redirect timer), "completing" (the last write), "stuck", "aborted".
\* toSend is what is left of the body; inFlight are the dataCB calls that
\* have not settled; finished counts the calls of mFinishCB and lastFinish
\* holds what the last of them was called with and what lines 1150-1158 left
\* (the chunk's state, the error flag, whether the slot was still in the
\* table); slow is mSlowWorkers[workerId], 0 when the entry is missing,
\* and streak counts the starving samples since the last healthy one;
\* refused tells
\* that a redirect was turned into an HTTPError (line 394), errored that
\* handleError ended the worker (lines 305-308).  The bytes of
\* the remote file are told apart by their position in it: srcPos is the
\* position of the next byte of the stream, bufSrc the positions of the
\* bytes in mBuffers, and the file of a download (NoDownload) holds a pair
\* <<offset, position>> for every offset the assembler has written.
NoWorker ==
  [live |-> FALSE, d |-> 0, c |-> 0, pc |-> "none", mEnded |-> FALSE,
   mRedirected |-> FALSE, mRedirectsFollowed |-> 0, mRestart |-> FALSE,
   mWriting |-> FALSE, buffered |-> 0, hasHistory |-> FALSE,
   responsePaused |-> FALSE, toSend |-> 0, inFlight |-> <<>>, finished |-> 0,
   retries |-> 0, srcPos |-> 0, bufSrc |-> <<>>, refused |-> FALSE,
   errored |-> FALSE, slow |-> 0, streak |-> 0,
   lastFinish |-> [interrupted |-> FALSE, size |-> 0, state |-> "init",
                   errorBefore |-> FALSE, error |-> FALSE, busy |-> FALSE]]

\* worker ids are handed out once per chunk start, and a chunk starts once
WorkerIds == 0..(MaxDownloads * (MaxChunks + 1) - 1)

\* the part of the behaviours that is explored
Explored(m) ==
  /\ m.nextId <= MaxStarts
  /\ \A w \in WorkerIds : m.wk[w].retries <= MaxRetries

\* the manager's own state, bundled so that handlers compose
Mgr ==
  [queue |-> mQueue, dls |-> downloads, busy |-> mBusyWorkers,
   wk |-> workers, pending |-> pending, nextId |-> mNextId,
   maxWorkers |-> mMaxWorkers, maxChunks |-> mMaxChunks]

\* lines 959-970: assemblerProm resolved, the worker is constructed and
\* entered in the table
startJobThen(m, p) ==
  [m EXCEPT !.pending = @ \ {p},
            !.busy = @ \cup {p.wid},
            !.wk[p.wid] = [NoWorker EXCEPT !.live = TRUE, !.d = p.d,
                                           !.c = p.c, !.pc = "url"]]

\* lines 906-911: assemblerProm rejected; idx is what the loops of tickQueue
\* left it at, and splice removes nothing beyond the end of the queue
startJobCatch(m, p) ==
  LET inQueue == p.tick <= Len(m.queue) IN
  [m EXCEPT !.pending = @ \ {p},
            !.dls = IF inQueue THEN [@ EXCEPT ![m.queue[p.tick]].failedCB = @ + 1]
                    ELSE @,
            !.queue = IF inQueue
                      THEN [i \in 1..(Len(@) - 1) |->
                              IF i < p.tick THEN @[i] ELSE @[i + 1]]
                      ELSE @]

\* the continuations of startJob whose assemblerProm is settled
settledStarts(m) ==
  {p \in m.pending : m.dls[p.d].asm \in {"open", "closed", "failed"}}

\* The continuations attached to a settled promise run, in the order they
\* were attached, once the running handler returns and before any other
\* event is handled.
RECURSIVE runContinuations(_)
runContinuations(m) ==
  IF settledStarts(m) = {} THEN m
  ELSE LET p == CHOOSE p \in settledStarts(m) :
                  \A q \in settledStarts(m) : p.wid <= q.wid
       IN runContinuations(IF m.dls[p.d].asm = "failed"
                           THEN startJobCatch(m, p) ELSE startJobThen(m, p))

\* the state a handler leaves, with the continuations it made runnable
SetMgr(h) ==
  LET m == runContinuations(h) IN
  /\ Explored(m)
  /\ mQueue' = m.queue
  /\ downloads' = m.dls
  /\ mBusyWorkers' = m.busy
  /\ workers' = m.wk
  /\ pending' = m.pending
  /\ mNextId' = m.nextId
  /\ UNCHANGED settings

chunkIdx(m, d) == DOMAIN m.dls[d].chunks

\* countIf(chunks, value => value.state === 'init')
countInit(m, d) ==
  Cardinality({i \in chunkIdx(m, d) : m.dls[d].chunks[i].state = "init"})

\* download.chunks.find(ele => ele.state === 'init')
firstInit(m, d) ==
  CHOOSE i \in chunkIdx(m, d) :
    /\ m.dls[d].chunks[i].state = "init"
    /\ \A j \in 1..(i - 1) : m.dls[d].chunks[j].state # "init"

\* lines 951-972, the synchronous part: the assembler is created on the first
\* start, and the construction of the worker waits on assemblerProm.  tick = 0
\* marks a continuation of the tickQueue call that is still running.
startJob(m, d, c, wid) ==
  [m EXCEPT !.dls[d].asm = IF @ = "none" THEN "creating" ELSE @,
            !.pending = @ \cup {[d |-> d, c |-> c, wid |-> wid, tick |-> 0]}]

\* lines 919-928
startWorker(m, d) ==
  LET c == firstInit(m, d)
      wid == m.nextId
      m1 == [m EXCEPT !.nextId = @ + 1,
                      !.dls[d].chunks[c].state = "running",
                      !.dls[d].chunks[c].workerId = wid]
  IN startJob(m1, d, c, wid)

RECURSIVE startWorkers(_, _, _)
startWorkers(m, d, n) ==
  IF n = 0 THEN m ELSE startWorkers(startWorker(m, d), d, n - 1)

\* loops that start a chunk only while more than one slot is free
RECURSIVE tickLoopSparing(_, _, _)
tickLoopSparing(m, freeSpots, idx) ==
  IF freeSpots > 1 /\ idx <= Len(m.queue)
  THEN LET d == m.queue[idx]
           n == Min(freeSpots - 1, countInit(m, d))
       IN tickLoopSparing(startWorkers(m, d, n), freeSpots - n, idx + 1)
  ELSE [m |-> m, idx |-> idx]

\* lines 897-916: the loops over the queue; idx counts from 1
RECURSIVE tickLoop(_, _, _)
tickLoop(m, freeSpots, idx) ==
  IF freeSpots > 0 /\ idx <= Len(m.queue)
  THEN LET d == m.queue[idx]
           n == Min(freeSpots, countInit(m, d))
       IN tickLoop(startWorkers(m, d, n), freeSpots - n, idx + 1)
  ELSE [m |-> m, idx |-> idx]

\* the chunks of download d that a tick from m to r started
startedBy(m, r, d) ==
  {i \in chunkIdx(m, d) : /\ m.dls[d].chunks[i].state = "init"
                          /\ r.dls[d].chunks[i].state = "running"}

\* what a tick from m to r has to observe: a download got a chunk started
\* only if no download before it in the queue has a chunk left in state
\* init, and either no download of the queue has one left or as many chunks
\* were started as slots were free
tickInOrder(m, r) ==
  /\ \A i \in DOMAIN m.queue :
       startedBy(m, r, m.queue[i]) # {} =>
         \A j \in 1..(i - 1) : countInit(r, m.queue[j]) = 0
  /\ \/ \A i \in DOMAIN m.queue : countInit(r, m.queue[i]) = 0
     \/ r.nextId - m.nextId = Max(0, m.maxWorkers - Cardinality(m.busy))

\* lines 895-917.  The catch handler of every startWorker of one call reads
\* the variable idx of that call when it runs, which is after the loops: it
\* sees the value idx was left with.
\* outOfOrder records, in the downloads of the queue, a call that did not
\* hand out the slots in the order of the queue.
tickQueue(m) ==
  LET r == tickLoop(m, m.maxWorkers - Cardinality(m.busy), 1)
      out == [r.m EXCEPT !.pending =
                {IF p.tick = 0 THEN [p EXCEPT !.tick = r.idx] ELSE p : p \in @}]
  IN IF tickInOrder(m, out) THEN out
     ELSE [out EXCEPT !.dls = [d \in DlIds |->
                                 IF \E i \in DOMAIN m.queue : m.queue[i] = d
                                 THEN [@[d] EXCEPT !.outOfOrder = TRUE]
                                 ELSE @[d]]]

(***************************************************************************)
(* The handlers of DownloadManager and DownloadWorker, as functions of the *)
(* manager's state: a handler that calls another one is their composition.*)
(***************************************************************************)
jobOf(m, w) == m.dls[m.wk[w].d].chunks[m.wk[w].c]

\* a slot that stays in the table
keepWorker(m, wid) == m

\* lines 1212-1216
stopWorker(m, wid) == [m EXCEPT !.busy = @ \ {wid}, !.wk[wid].slow = 0]

\* line 1160: no chunk is left that is neither paused nor finished
allTerminal(m, d) ==
  \A i \in chunkIdx(m, d) : m.dls[d].chunks[i].state \in {"paused", "finished"}

\* a chunk that counts as finished whenever it was not interrupted
finishChunkStateDone(job, interrupted) ==
  IF interrupted THEN "paused" ELSE "finished"

\* line 1155
finishChunkState(job, interrupted) ==
  IF interrupted \/ job.size > 0 THEN "paused" ELSE "finished"

\* lines 1149-1210, up to the call of assembler.close(): closing counts the
\* close() calls whose continuation (line 1165) has not run
finishChunk(m, d, c, interrupted) ==
  LET job == m.dls[d].chunks[c]
      m1 == stopWorker(m, job.workerId)
      m1b == [m1 EXCEPT
               !.dls[d].chunks[c].state = finishChunkState(job, interrupted),
               !.dls[d].error = IF ~interrupted /\ job.size > 0 THEN TRUE ELSE @]
      m2 == [m1b EXCEPT
               !.wk[job.workerId].lastFinish =
                  [interrupted |-> interrupted, size |-> job.size,
                   state |-> m1b.dls[d].chunks[c].state,
                   errorBefore |-> m.dls[d].error,
                   error |-> m1b.dls[d].error,
                   busy |-> job.workerId \in m1b.busy]]
      m3 == IF allTerminal(m2, d)
            THEN [m2 EXCEPT !.dls[d].closing = @ + 1, !.dls[d].asm = "closed"]
            ELSE m2
  IN tickQueue(m3)

\* mRequest.abort(): nothing more arrives from the request or its response
abortRequest(wk) ==
  IF wk.pc \in {"request", "stream"}
  THEN [wk EXCEPT !.pc = "aborted", !.toSend = 0] ELSE wk

\* lines 311-321
abort(m, w, paused) ==
  IF m.wk[w].mEnded THEN m
  ELSE finishChunk([m EXCEPT !.wk[w] = [abortRequest(@) EXCEPT
                                          !.mEnded = TRUE,
                                          !.finished = @ + 1]],
                   m.wk[w].d, m.wk[w].c, paused)

\* lines 884-891: the loop over the chunks of the download
RECURSIVE cancelChunks(_, _, _)
cancelChunks(m, d, i) ==
  IF i > Len(m.dls[d].chunks) THEN m
  ELSE LET ch == m.dls[d].chunks[i] IN
       IF ch.state = "running"
       THEN LET m1 == IF ch.workerId \in m.busy THEN abort(m, ch.workerId, FALSE)
                      ELSE m
            IN cancelChunks([m1 EXCEPT !.dls[d].chunks[i].state = "paused"],
                            d, i + 1)
       ELSE cancelChunks(m, d, i + 1)

\* lines 883-893; cancelled records that the errorCB of the first chunk ran
cancelDownload(m, d) ==
  [cancelChunks(m, d, 1) EXCEPT !.dls[d].failedCB = @ + 1,
                                !.dls[d].cancelled = TRUE]

\* lines 283-309; retryable: err.code is ESOCKETTIMEDOUT or ECONNRESET
handleError(m, w, retryable) ==
  IF m.wk[w].mEnded THEN m
  ELSE LET d == m.wk[w].d
           c == m.wk[w].c
           m1 == IF jobOf(m, w).errorCB THEN cancelDownload(m, d) ELSE m
           m2 == [m1 EXCEPT !.wk[w] = abortRequest(@)]
       IN IF retryable /\ ~m2.wk[w].mEnded /\ m2.wk[w].hasHistory
          THEN [m2 EXCEPT !.wk[w].pc = "url", !.wk[w].retries = @ + 1]
          ELSE finishChunk([m2 EXCEPT !.wk[w].mEnded = TRUE,
                                      !.wk[w].finished = @ + 1,
                                      !.wk[w].errored = TRUE],
                           d, c, FALSE)

\* lines 323-328
handleHTML(m, w) ==
  LET m1 == abort(m, w, FALSE) IN
  IF jobOf(m1, w).errorCB THEN cancelDownload(m1, m.wk[w].d) ELSE m1

\* lines 472-486 and 974-985: dataCB is called with the buffer, and the
\* in-flight counters move at once.  closed: the assembler was closed at the
\* call, which makes dataCB reject; final: the write of handleComplete.
doWriteBuffer(m, w, len, final) ==
  LET d == m.wk[w].d
      c == m.wk[w].c
  IN [m EXCEPT !.wk[w].inFlight =
                  Append(@, [len |-> len, final |-> final,
                             closed |-> (m.dls[d].asm = "closed"),
                             at |-> m.dls[d].chunks[c].offset,
                             src |-> m.wk[w].bufSrc]),
               !.wk[w].buffered = 0,
               !.wk[w].bufSrc = <<>>,
               !.dls[d].chunks[c].received = @ + len,
               !.dls[d].chunks[c].offset = @ + len,
               !.dls[d].chunks[c].size = @ - len]

\* a completion that ends the worker whether or not it was restarted
completedEnds(m, w) == abort([m EXCEPT !.wk[w].pc = "aborted"], w, FALSE)

\* lines 340-355: what follows the last write of handleComplete
completed(m, w) ==
  IF m.wk[w].mRestart /\ jobOf(m, w).size > 0
  THEN [m EXCEPT !.wk[w].mRestart = FALSE, !.wk[w].pc = "url"]
  ELSE abort([m EXCEPT !.wk[w].pc = "aborted"], w, FALSE)

\* lines 330-359
handleComplete(m, w) ==
  IF m.wk[w].mEnded THEN m
  ELSE IF m.wk[w].buffered = 0 THEN completed(m, w)
  ELSE [doWriteBuffer(m, w, m.wk[w].buffered, TRUE) EXCEPT
          !.wk[w].pc = "completing"]

\* lines 513-552, for a buffer of one block
handleData(m, w) ==
  IF m.wk[w].mEnded \/ jobOf(m, w).state \in {"paused", "finished"}
  THEN [m EXCEPT !.wk[w] = abortRequest(@)]
  ELSE IF m.wk[w].mRedirected THEN m
  ELSE LET n == m.wk[w].buffered + 1
           m1 == [m EXCEPT !.wk[w].hasHistory = TRUE, !.wk[w].buffered = n,
                           !.wk[w].bufSrc = Append(@, m.wk[w].srcPos),
                           !.wk[w].srcPos = @ + 1]
       IN IF n >= BUFFER_SIZE
          THEN IF ~m.wk[w].mWriting
               THEN doWriteBuffer([m1 EXCEPT !.wk[w].mWriting = TRUE], w, n, FALSE)
               ELSE IF n >= BUFFER_SIZE_CAP
               THEN [m1 EXCEPT !.wk[w].responsePaused = TRUE]
               ELSE m1
          ELSE m1

\* chunks that all have the size chunkSize, the last one too
RECURSIVE layoutFullSize(_, _, _)
layoutFullSize(offset, chunkSize, fileSize) ==
  IF offset < fileSize
  THEN <<[state |-> "init", workerId |-> -1, offset |-> offset,
          size |-> chunkSize, received |-> 0, confirmedOffset |-> offset,
          confirmedSize |-> chunkSize, confirmedReceived |-> 0,
          responseCB |-> "none", errorCB |-> FALSE]>>
         \o layoutFullSize(offset + chunkSize, chunkSize, fileSize)
  ELSE <<>>

\* lines 1082-1096: the chunks appended for a file of fileSize
RECURSIVE layout(_, _, _)
layout(offset, chunkSize, fileSize) ==
  IF offset < fileSize
  THEN LET minSize == Min(chunkSize, fileSize - offset) IN
       <<[state |-> "init", workerId |-> -1, offset |-> offset,
          size |-> minSize, received |-> 0, confirmedOffset |-> offset,
          confirmedSize |-> minSize, confirmedReceived |-> 0,
          responseCB |-> "none", errorCB |-> FALSE]>>
         \o layout(offset + chunkSize, chunkSize, fileSize)
  ELSE <<>>

\* lines 1016-1025
updateDownloadSize(m, d, size, chunkable) ==
  [m EXCEPT !.dls[d].size = size,
            !.dls[d].chunkable = IF chunkable THEN "yes"
                                 ELSE IF @ = "unknown" THEN "no" ELSE @]

\* a download that is split whatever the server said about ranges
updateDownloadAnyServer(m, d, fileSize, chunkable) ==
  LET m1 == updateDownloadSize(m, d, fileSize, chunkable)
      remainingSize == fileSize - MinChunkSize
      maxChunks == Min(m.maxChunks, m.maxWorkers)
      chunkSize == Min(remainingSize,
                       Max(MinChunkSize,
                           (remainingSize + maxChunks - 1) \div maxChunks))
  IN IF Len(m.dls[d].chunks) > 1 THEN m1
     ELSE IF fileSize > MinChunkSize
     THEN tickQueue([m1 EXCEPT !.dls[d].chunks =
                       @ \o layout(MinChunkSize + 1, chunkSize, fileSize)])
     ELSE m1

\* lines 1058-1104
updateDownload(m, d, fileSize, chunkable) ==
  LET m1 == updateDownloadSize(m, d, fileSize, chunkable)
      remainingSize == fileSize - MinChunkSize
      maxChunks == Min(m.maxChunks, m.maxWorkers)
      chunkSize == Min(remainingSize,
                       Max(MinChunkSize,
                           (remainingSize + maxChunks - 1) \div maxChunks))
  IN IF Len(m.dls[d].chunks) > 1 THEN m1
     ELSE IF fileSize > MinChunkSize /\ chunkable
     THEN tickQueue([m1 EXCEPT !.dls[d].chunks =
                       @ \o layout(MinChunkSize + 1, chunkSize, fileSize)])
     ELSE m1

\* what a server that honours inclusive byte ranges sends for the request of
\* the job (line 226): the bytes offset .. offset + size of the file, or the
\* whole file if it does not support ranges
bodyLength(dl, job) ==
  IF dl.ranges THEN Max(0, Min(job.size + 1, dl.remote - job.offset))
  ELSE dl.remote

\* lines 399-459: a 2xx response that is not HTML
handleResponseOk(m, w) ==
  LET d == m.wk[w].d
      c == m.wk[w].c
      job == jobOf(m, w)
      chunkable == m.dls[d].ranges
      chunkSize == bodyLength(m.dls[d], job)
      fileSize == IF chunkable THEN m.dls[d].remote ELSE chunkSize
      m1 == [m EXCEPT !.wk[w].pc = "stream", !.wk[w].toSend = chunkSize,
                      !.wk[w].srcPos = IF chunkable THEN job.offset ELSE 0,
                      !.dls[d].headers = "data"]
      m2 == [m1 EXCEPT
               !.dls[d].chunks[c].offset = IF chunkable THEN @ ELSE 0,
               !.dls[d].chunks[c].size = chunkSize,
               !.dls[d].chunks[c].confirmedSize =
                  IF chunkSize # job.size THEN chunkSize ELSE @]
  IN CASE job.responseCB = "updateDownload" ->
            updateDownload(m2, d, fileSize, chunkable)
       [] job.responseCB = "updateDownloadSize" ->
            updateDownloadSize(m2, d, fileSize, chunkable)
       [] OTHER -> m1

\* a worker that follows every redirect
followAnyRedirect(m, w, redirect) ==
  IF redirect
  THEN [m EXCEPT !.wk[w].mRedirected = TRUE, !.wk[w].pc = "wait",
                 !.wk[w].toSend = 0]
  ELSE handleError(m, w, FALSE)

\* lines 367-397: a response with a status of 300 or more
handleResponseStatus(m, w, redirect) ==
  IF redirect /\ m.wk[w].mRedirectsFollowed < MAX_REDIRECT_FOLLOW
  THEN [m EXCEPT !.wk[w].mRedirected = TRUE, !.wk[w].pc = "wait",
                 !.wk[w].toSend = 0]
  ELSE handleError([m EXCEPT !.wk[w].refused = redirect], w, FALSE)

\* lines 378-392: the timer of a followed redirect fires; assignJob follows
redirectTimer(m, w) ==
  LET d == m.wk[w].d
      c == m.wk[w].c
      job == jobOf(m, w)
  IN [m EXCEPT !.wk[w].mRedirectsFollowed = @ + 1,
               !.wk[w].mRedirected = FALSE,
               !.wk[w].mEnded = FALSE,
               !.dls[d].chunks[c] =
                  [@ EXCEPT !.size = job.size + job.received,
                            !.confirmedSize = job.size + job.received,
                            !.received = 0, !.offset = 0,
                            !.confirmedReceived = 0, !.confirmedOffset = 0,
                            !.state = "running"]]

\* lines 157-184; hasUrl: jobUrl is defined; cookies is "throws" if the
\* lookup throws synchronously, and startDownload follows at once
assignJob(m, w, hasUrl, cookies) ==
  LET m1 == [m EXCEPT !.wk[w].hasHistory = FALSE, !.wk[w].pc = "aborted"] IN
  IF jobOf(m, w).size <= 0 THEN handleComplete(m1, w)
  ELSE IF ~hasUrl THEN handleError(m1, w, FALSE)
  ELSE [m1 EXCEPT !.wk[w].pc = IF cookies = "throws" THEN "request"
                               ELSE "cookies"]

\* lines 790-794 and 747-751: chunks that were not started get the state to
RECURSIVE markInit(_, _)
markInit(chunks, to) ==
  IF chunks = <<>> THEN <<>>
  ELSE <<[Head(chunks) EXCEPT !.state = IF @ = "init" THEN to ELSE @]>>
         \o markInit(Tail(chunks), to)

\* a checkpoint taken from the counters that move when a write is issued
inFlightChunk(job) ==
  [received |-> job.received, offset |-> job.offset, size |-> job.size]

\* lines 1106-1113 and 799-804
toStoredChunk(job) ==
  [received |-> job.confirmedReceived, offset |-> job.confirmedOffset,
   size |-> job.confirmedSize]

\* lines 797-810: the loop of pause over the chunks; out collects
\* unfinishedChunks
RECURSIVE pauseChunks(_, _, _, _)
pauseChunks(m, d, i, out) ==
  IF i > Len(m.dls[d].chunks) THEN [m |-> m, out |-> out]
  ELSE LET ch == m.dls[d].chunks[i] IN
       IF ch.state \in {"running", "paused"} /\ ch.size > 0
       THEN LET m1 == IF ch.workerId \in m.busy
                      THEN stopWorker(abort(m, ch.workerId, TRUE), ch.workerId)
                      ELSE m
            IN pauseChunks(m1, d, i + 1, Append(out, toStoredChunk(ch)))
       ELSE pauseChunks(m, d, i + 1, out)

removeFromQueue(m, d) ==
  [m EXCEPT !.queue = SelectSeq(@, LAMBDA x : x # d)]

\* lines 774-816, for a download that is in the queue
pause(m, d) ==
  LET m1 == [m EXCEPT !.dls[d].chunks = markInit(@, "paused")]
      r == pauseChunks(m1, d, 1, <<>>)
  IN [m |-> removeFromQueue(r.m, d), out |-> r.out]

\* lines 755-760: the loop of stop over the chunks
RECURSIVE stopChunks(_, _, _)
stopChunks(m, d, i) ==
  IF i > Len(m.dls[d].chunks) THEN m
  ELSE LET ch == m.dls[d].chunks[i] IN
       stopChunks(IF ch.state = "running" /\ ch.workerId \in m.busy
                  THEN abort(m, ch.workerId, FALSE) ELSE m,
                  d, i + 1)

\* lines 735-772, for a download that is in the queue
stop(m, d) ==
  LET m1 == [m EXCEPT !.dls[d].chunks = markInit(@, "finished")]
      m2 == IF \E i \in chunkIdx(m1, d) : m1.dls[d].chunks[i].state # "finished"
            THEN stopChunks(m1, d, 1)
            ELSE [m1 EXCEPT !.dls[d].failedCB = @ + 1]
  IN removeFromQueue(m2, d)

\* a job that starts at the beginning of the file, whatever the checkpoint
toJobFromStart(sizeKnown, chunk, first) ==
  [state |-> "init", workerId |-> -1, offset |-> 0,
   size |-> chunk.size, received |-> chunk.received,
   confirmedOffset |-> 0, confirmedSize |-> chunk.size,
   confirmedReceived |-> chunk.received,
   responseCB |-> IF first \/ ~sizeKnown THEN "updateDownload"
                  ELSE "updateDownloadSize",
   errorCB |-> FALSE]

\* lines 1115-1144
toJob(sizeKnown, chunk, first) ==
  [state |-> "init", workerId |-> -1, offset |-> chunk.offset,
   size |-> chunk.size, received |-> chunk.received,
   confirmedOffset |-> chunk.offset, confirmedSize |-> chunk.size,
   confirmedReceived |-> chunk.received,
   responseCB |-> IF first \/ ~sizeKnown THEN "updateDownload"
                  ELSE "updateDownloadSize",
   errorCB |-> FALSE]

\* the content of the file at the path name, as the downloads that write to
\* it have left it
fileAt(m, name) ==
  UNION {m.dls[e].file : e \in {x \in DlIds : m.dls[x].used
                                               /\ m.dls[x].tempName = name}}

\* lines 689-719: the download resume builds; size < 0 stands for undefined
resumed(d, received, size, chunks) ==
  [NoDownload EXCEPT
     !.used = TRUE, !.origName = ModZip, !.tempName = ModZip,
     !.redownload = "always", !.received = received, !.size = size,
     !.chunks = [i \in DOMAIN chunks |->
                   [toJob(size >= 0, chunks[i], received = 0 /\ i = 1)
                      EXCEPT !.errorCB = (i = 1)]]]

\* resume accepting an empty chunk list
resumeAnyway(m, d, received, size, chunks) ==
  tickQueue([m EXCEPT !.dls[d] = resumed(d, received, size, chunks),
                      !.queue = Append(@, d)])

\* lines 713-722: with chunks the download is queued, without the promise
\* rejects and nothing else happens
resume(m, d, received, size, chunks) ==
  IF Len(chunks) > 0
  THEN tickQueue([m EXCEPT !.dls[d] =
                             [resumed(d, received, size, chunks) EXCEPT
                                !.file = fileAt(m, ModZip)],
                           !.queue = Append(@, d)])
  ELSE m

(***************************************************************************)
(* enqueue (lines 624-679) and the steps of its reservation.               *)
(***************************************************************************)
NoRet ==
  [call |-> "none", err |-> "", nUrls |-> -1, nChunks |-> -1,
   paused |-> FALSE, chunks |-> <<>>, stopped |-> FALSE, from |-> 0,
   received |-> 0, size |-> -1, writing |-> FALSE, fresh |-> FALSE,
   declared |-> -1]

\* an open without the exclusive flag never fails with EEXIST
openNotExclusive(path, files) == FALSE

\* line 1249: the flags 'wx' make openAsync fail with EEXIST on an existing file
openFailsEEXIST(path, files) == path \in files

\* lines 629-640: what enqueue rejects with before it touches anything
checkArgs(urls, fileName) ==
  IF urls = <<>> THEN "Error"
  ELSE IF fileName = NoName /\ urls[1].malformed THEN "DataInvalid"
  ELSE ""

UrlLists == {<<>>, <<UrlMod>>, <<UrlBad>>}
FileNameArgs == {NoName, Mod1Zip}

\* lines 645-675: the reservation resolved; the download is built and queued
enqueued(m, d, r) ==
  LET download == [NoDownload EXCEPT
                     !.used = TRUE, !.origName = r.origName,
                     !.tempName = r.fullPath,
                     !.finalName = IF r.explicit THEN r.fullPath ELSE NoName,
                     !.redownload = r.redownload,
                     !.received = 0, !.chunks = <<initChunk>>]
  IN tickQueue([m EXCEPT !.dls[d] = download, !.queue = Append(@, d)])

\* what is left of a reservation once its promise settled: the closure of
\* unusedName is unreachable then, only the outcome remains
outcomeOf(r) ==
  [r EXCEPT !.pc = IF r.pc = "resolved" THEN "done" ELSE @,
            !.counter = 0, !.first = TRUE, !.base = NoName, !.ext = <<>>,
            !.fullPath = IF r.pc = "resolved" THEN @ ELSE NoName]

\* The promise of unusedName settles and the chain of enqueue runs on:
\* resolved, the download is queued (line 645); rejected, enqueue rejects.
Settle(d, r) ==
  /\ res' = [res EXCEPT ![d] = IF r.pc \in {"resolved", "rejected"}
                               THEN outcomeOf(r) ELSE r]
  /\ ret' = IF r.pc = "rejected" THEN [ret EXCEPT ![d].err = r.result] ELSE ret
  /\ IF r.pc = "resolved"
     THEN SetMgr(enqueued(Mgr, d, r))
     ELSE UNCHANGED <<mQueue, downloads, mBusyWorkers, workers, pending, mNextId,
                      settings>>

\* lines 629-644: the checks of the arguments, ensureDirAsync, and the start
\* of the reservation
Enqueue(d, urls, fileName, redownload, dirOk) ==
  LET err == checkArgs(urls, fileName)
      nameTemplate == IF fileName # NoName THEN fileName ELSE urls[1].base
      name == IF nameTemplate = <<>> THEN Deferred ELSE nameTemplate
  IN
  /\ ret[d].call = "none"
  /\ ret' = [ret EXCEPT ![d] =
               [NoRet EXCEPT !.call = "enqueue", !.nUrls = Len(urls),
                !.err = IF err # "" THEN err
                        ELSE IF ~dirOk THEN "FsError" ELSE ""]]
  /\ res' = IF err = "" /\ dirOk
            THEN [res EXCEPT ![d] =
                    [unusedName(name, redownload) EXCEPT
                       !.explicit = (fileName # NoName),
                       !.origName = nameTemplate]]
            ELSE res
  /\ UNCHANGED <<fs, mFileExistsCB, mQueue, downloads, mBusyWorkers, workers,
                 pending, mNextId, settings>>

\* lines 1249-1292: fs.openAsync(fullPath, 'wx') settles, and after a
\* successful open fs.closeAsync; EBADF from the close counts as success
OpenFile(d, outcome) ==
  /\ res[d].pc = "open"
  /\ IF outcome = "openError"
     THEN /\ fs' = fs
          /\ Settle(d, onOtherError(res[d]))
     ELSE IF openFailsEEXIST(res[d].fullPath, fs)
     THEN /\ fs' = fs
          /\ Settle(d, onEEXIST(res[d], mFileExistsCB))
     ELSE LET r == [res[d] EXCEPT !.created = @ \cup {res[d].fullPath}] IN
          /\ fs' = fs \cup {res[d].fullPath}
          /\ Settle(d, IF outcome \in {"ok", "EBADF"}
                       THEN [r EXCEPT !.pc = "resolved"]
                       ELSE onOtherError(r))
  /\ UNCHANGED mFileExistsCB

\* lines 1276-1285: the registered callback answers
AnswerFileExists(d, cont) ==
  /\ res[d].pc = "ask"
  /\ Settle(d, [onAnswer(res[d], cont) EXCEPT
                  !.answer = IF cont THEN "yes" ELSE "no"])
  /\ UNCHANGED <<fs, mFileExistsCB>>

\* lines 602-604
SetFileExistsCB ==
  /\ ~mFileExistsCB
  /\ mFileExistsCB' = TRUE
  /\ UNCHANGED <<fs, res, mQueue, downloads, mBusyWorkers, workers, pending,
                 mNextId, ret, settings>>

(***************************************************************************)
(* The calls of the manager's API and the events of the event loop.        *)
(***************************************************************************)
nameVars == <<fs, res, mFileExistsCB>>

\* the arguments resume is called with: nothing left, a download that never
\* received anything, a download interrupted in its two chunks
ResumeArgs ==
  {[received |-> 0, size |-> 3, chunks |-> <<>>],
   [received |-> 0, size |-> -1,
    chunks |-> <<[received |-> 0, offset |-> 0, size |-> 1]>>],
   [received |-> 1, size |-> 3,
    chunks |-> <<[received |-> 1, offset |-> 1, size |-> 1],
                 [received |-> 0, offset |-> 2, size |-> 1]>>]}

\* the arguments of a download that starts as enqueue starts it, with the
\* chunk of initChunk
FreshArgs == {a \in ResumeArgs : a.received = 0 /\ a.size < 0}

\* lines 681-724
Resume(d, a) ==
  /\ ret[d].call = "none"
  /\ \A e \in 1..(d - 1) : ret[e].call # "none"
  /\ SetMgr(resume(Mgr, d, a.received, a.size, a.chunks))
  /\ ret' = [ret EXCEPT ![d] =
               [NoRet EXCEPT !.call = "resume", !.nChunks = Len(a.chunks),
                             !.fresh = (a \in FreshArgs),
                             !.declared = a.size,
                             !.err = IF downloads'[d].used THEN ""
                                     ELSE "ProcessCanceled"]]
  /\ UNCHANGED nameVars

\* lines 681-724, called with what pause(d) returned and with the progress
\* of d when it was paused, for the file d was written to on the server d
\* was served by
ResumeFrom(d, e) ==
  /\ ret[d].paused /\ ret[e].call = "none"
  /\ \A x \in 1..(e - 1) : ret[x].call # "none"
  /\ \A x \in DlIds : ret[x].from = 0
  /\ LET m == resume(Mgr, e, ret[d].received, ret[d].size, ret[d].chunks)
     IN SetMgr(IF m.dls[e].used
               THEN [m EXCEPT !.dls[e].remote = downloads[d].remote,
                              !.dls[e].ranges = downloads[d].ranges]
               ELSE m)
  /\ ret' = [ret EXCEPT ![e] =
               [NoRet EXCEPT !.call = "resume", !.from = d,
                             !.declared = ret[d].size,
                             !.nChunks = Len(ret[d].chunks),
                             !.err = IF downloads'[e].used THEN ""
                                     ELSE "ProcessCanceled"]]
  /\ UNCHANGED nameVars

\* lines 774-816
Pause(d) ==
  /\ \E i \in DOMAIN mQueue : mQueue[i] = d
  /\ LET r == pause(Mgr, d) IN
     /\ SetMgr(r.m)
     /\ ret' = [ret EXCEPT ![d].paused = TRUE, ![d].chunks = r.out,
                           ![d].received = downloads[d].received,
                           ![d].size = downloads[d].size,
                           ![d].writing =
                              \E w \in WorkerIds :
                                /\ workers[w].live /\ workers[w].d = d
                                /\ workers[w].inFlight # <<>>]
  /\ UNCHANGED nameVars

\* lines 735-772
Stop(d) ==
  /\ \E i \in DOMAIN mQueue : mQueue[i] = d
  /\ SetMgr(stop(Mgr, d))
  /\ ret' = [ret EXCEPT ![d].stopped = TRUE]
  /\ UNCHANGED nameVars

\* lines 953-954: FileAssembler.create settles, and the continuations of
\* every startJob of the download run
AsmCreated(d, ok) ==
  /\ downloads[d].asm = "creating"
  /\ SetMgr([Mgr EXCEPT !.dls[d].asm = IF ok THEN "open" ELSE "failed"])
  /\ UNCHANGED <<nameVars, ret>>

\* line 1185: download.tempName.toLowerCase().endsWith('.html')
endsWithHtml(name) == name[Len(name)] = "html"

\* lines 1166-1191: what the continuation of close() does to the files.  A
\* download with a finalName is renamed to it if the names differ, and they
\* never do: finalName is the path of tempName (line 652).  Of the others
\* the file of an HTML response is removed, ENOENT is swallowed.
afterClose(dl, files) ==
  IF dl.finalName # NoName THEN files
  ELSE IF dl.headers = "html" /\ ~endsWithHtml(dl.tempName)
  THEN files \ {dl.tempName}
  ELSE files

\* lines 1165-1206: assembler.close() settled and finishCB is called; result
\* keeps hadErrors and the chunks of unfinishedChunks (lines 1195-1204)
FinishTail(d) ==
  /\ downloads[d].closing > 0
  /\ fs' = afterClose(downloads[d], fs)
  /\ downloads' = [downloads EXCEPT
                     ![d].closing = @ - 1, ![d].finishCB = @ + 1,
                     ![d].result =
                        [hadErrors |-> downloads[d].error,
                         unfinishedChunks |->
                            {i \in DOMAIN downloads[d].chunks :
                               downloads[d].chunks[i].state = "paused"}]]
  /\ UNCHANGED <<res, mFileExistsCB, ret, mQueue, mBusyWorkers, workers, pending,
                 mNextId, settings>>

Waiting(w, pcs) == workers[w].live /\ workers[w].pc \in pcs

\* lines 148-154, 299-304 and 343-348: job.url() settled
UrlResolved(w, hasUrl, cookies) ==
  /\ Waiting(w, {"url"})
  /\ SetMgr(assignJob(Mgr, w, hasUrl, cookies))
  /\ UNCHANGED <<nameVars, ret>>

\* lines 172-179: the cookie lookup settled
CookiesSettled(w, ok) ==
  /\ Waiting(w, {"cookies"})
  /\ workers' = [workers EXCEPT ![w].pc = IF ok THEN "request" ELSE "stuck"]
  /\ UNCHANGED <<nameVars, ret, mQueue, downloads, mBusyWorkers, pending, mNextId,
                 settings>>

\* the files a server holds: a small one served whole, a larger one served
\* in ranges
Files == {[total |-> 1, ranges |-> FALSE], [total |-> 3, ranges |-> TRUE]}

\* lines 242-270 and 361-460: the response arrives and its stream is
\* listened to.  The file on the server is fixed by the first response that
\* describes it; only the body of a 2xx response is told from its end.
Response(w, kind, file) ==
  /\ Waiting(w, {"request"})
  /\ LET d == workers[w].d
         fixed == downloads[d].remote > 0
         m0 == [Mgr EXCEPT !.wk[w].pc = "stream", !.wk[w].toSend = 0]
         m1 == [m0 EXCEPT !.dls[d].remote = file.total,
                          !.dls[d].ranges = file.ranges]
     IN /\ fixed => /\ file.total = downloads[d].remote
                    /\ file.ranges = downloads[d].ranges
        /\ CASE kind = "ok" ->
                  /\ file.ranges => jobOf(m1, w).offset < file.total
                  /\ SetMgr(handleResponseOk(m1, w))
             [] kind = "html" ->
                  SetMgr(handleHTML([m0 EXCEPT !.dls[d].headers = "html"], w))
             [] kind = "redirect" -> SetMgr(handleResponseStatus(m0, w, TRUE))
             [] OTHER -> SetMgr(handleResponseStatus(m0, w, FALSE))
  /\ UNCHANGED <<nameVars, ret>>

(***************************************************************************)
(* The rename to the name the server supplies (lines 1029-1056).  rename   *)
(* is the state of the promise chain: "reserving" while unusedName runs,   *)
(* "renaming" while assembler.rename runs, then "renamed", "failed" or     *)
(* "closed" (the assembler was closed when the name was reserved).         *)
(***************************************************************************)
\* lines 1249-1266 with redownload 'always': the first candidate that
\* openAsync can create
RECURSIVE firstFree(_, _)
firstFree(r, files) ==
  IF openFailsEEXIST(r.fullPath, files) THEN firstFree(nextCandidate(r), files)
  ELSE r.fullPath

\* lines 1029-1033: the name differs from the one the download was started
\* with and no final name is set, and unusedName is called
startRename(m, d, fileName) ==
  IF fileName # NoName /\ fileName # m.dls[d].origName
       /\ m.dls[d].finalName = NoName
  THEN [m EXCEPT !.dls[d].rename =
                   [pc |-> "reserving", fileName |-> fileName,
                    resolvedName |-> <<>>, oldTempName |-> <<>>]]
  ELSE m

\* lines 399-459 and 1027-1104: a 2xx response whose name for the file,
\* from content-disposition or else from the url, is fileName
handleResponseNamed(m, w, fileName) ==
  IF jobOf(m, w).responseCB = "updateDownload"
  THEN startRename(handleResponseOk(m, w), m.wk[w].d, fileName)
  ELSE handleResponseOk(m, w)

\* the names a server supplies: none, the name of the download, another
ServerNames == {NoName, ModZip, Mod1Zip}

\* lines 242-270 and 361-460: Response for a 2xx answer that names the file
ResponseNamed(w, file, fileName) ==
  /\ Waiting(w, {"request"})
  /\ LET d == workers[w].d
         fixed == downloads[d].remote > 0
         m0 == [Mgr EXCEPT !.wk[w].pc = "stream", !.wk[w].toSend = 0]
         m1 == [m0 EXCEPT !.dls[d].remote = file.total,
                          !.dls[d].ranges = file.ranges]
     IN /\ fixed => /\ file.total = downloads[d].remote
                    /\ file.ranges = downloads[d].ranges
        /\ file.ranges => jobOf(m1, w).offset < file.total
        /\ SetMgr(handleResponseNamed(m1, w, fileName))
  /\ UNCHANGED <<nameVars, ret>>

\* lines 1034-1038: unusedName resolved with a file it created; unless the
\* assembler is closed, tempName becomes that name and the rename starts
NameReserved(d) ==
  /\ downloads[d].rename.pc = "reserving"
  /\ LET resolvedName ==
           firstFree(unusedName(downloads[d].rename.fileName,
                                downloads[d].redownload), fs)
     IN /\ fs' = fs \cup {resolvedName}
        /\ downloads' =
             [downloads EXCEPT
                ![d].rename =
                   [@ EXCEPT !.pc = IF downloads[d].asm = "closed"
                                    THEN "closed" ELSE "renaming",
                             !.resolvedName = resolvedName,
                             !.oldTempName = downloads[d].tempName],
                ![d].tempName = IF downloads[d].asm = "closed" THEN @
                                ELSE resolvedName]
  /\ UNCHANGED <<res, mFileExistsCB, ret, mQueue, mBusyWorkers, workers, pending,
                 mNextId, settings>>

\* a failed rename that leaves the names as they are
renameFailedKeeps(dl, files) ==
  [dl |-> [dl EXCEPT !.rename.pc = "failed"], files |-> files]

\* lines 1042-1050 and 1053-1055: the rename failed; tempName is reset, the
\* reserved file removed, the error logged
renameFailed(dl, files) ==
  [dl |-> [dl EXCEPT !.rename.pc = "failed",
                     !.tempName = dl.rename.oldTempName],
   files |-> files \ {dl.rename.resolvedName}]

\* lines 1038-1041: the file is moved onto the reserved one, and finalName
\* is the promise of the name
renameDone(dl, files) ==
  [dl |-> [dl EXCEPT !.rename.pc = "renamed",
                     !.finalName = dl.rename.resolvedName],
   files |-> files \ {dl.rename.oldTempName}]

\* lines 1038-1055: assembler.rename settles
Renamed(d, ok) ==
  /\ downloads[d].rename.pc = "renaming"
  /\ LET r == IF ok THEN renameDone(downloads[d], fs)
              ELSE renameFailed(downloads[d], fs)
     IN /\ fs' = r.files
        /\ downloads' = [downloads EXCEPT ![d] = r.dl]
  /\ UNCHANGED <<res, mFileExistsCB, ret, mQueue, mBusyWorkers, workers, pending,
                 mNextId, settings>>

\* lines 274-276 and 264: the request or the stream emits 'error', the last
\* event of either
RequestError(w, retryable) ==
  /\ Waiting(w, {"request", "stream"})
  /\ SetMgr(handleError([Mgr EXCEPT !.wk[w].pc = "aborted", !.wk[w].toSend = 0],
                        w, retryable))
  /\ UNCHANGED <<nameVars, ret>>

\* lines 261-263
Data(w) ==
  /\ Waiting(w, {"stream"})
  /\ workers[w].toSend > 0 /\ ~workers[w].responsePaused
  /\ SetMgr(handleData([Mgr EXCEPT !.wk[w].toSend = @ - 1], w))
  /\ UNCHANGED <<nameVars, ret>>

\* lines 198-202: the request is aborted, which ends the stream of the
\* response, and handleComplete is to start the job again
restart(m, w) == [m EXCEPT !.wk[w].mRestart = TRUE, !.wk[w].toSend = 0]

\* a progress callback that restarts the worker at every starving sample
restartAtOnce(m, w, measure) ==
  IF measure = "starving"
  THEN [restart(m, w) EXCEPT !.wk[w].slow = 0, !.wk[w].streak = @ + 1]
  ELSE IF measure = "healthy"
  THEN [m EXCEPT !.wk[w].slow = 0, !.wk[w].streak = 0]
  ELSE m

\* lines 930-949: measure is what mSpeedCalculator.addMeasure returns
\* (true, false or undefined), and expired whether the 15 minutes since
\* download.started are over
makeProgressCB(m, w, measure) ==
  IF measure = "starving"
  THEN LET m1 == [m EXCEPT !.wk[w].slow = @ + 1, !.wk[w].streak = @ + 1] IN
       IF m1.wk[w].slow > SLOW_LIMIT /\ ~m.dls[m.wk[w].d].expired
       THEN [restart(m1, w) EXCEPT !.wk[w].slow = 0]
       ELSE m1
  ELSE IF measure = "healthy"
  THEN [m EXCEPT !.wk[w].slow = 0, !.wk[w].streak = 0]
  ELSE m

Measures == {"starving", "healthy", "undefined"}

\* lines 514, 521, 530-531: the data event of worker w is one that starts
\* a write, which is when handleData calls mProgressCB
Reports(w) ==
  /\ w \in mBusyWorkers
  /\ ~workers[w].mEnded /\ ~workers[w].mRedirected /\ ~workers[w].mWriting
  /\ jobOf(Mgr, w).state = "running"
  /\ workers[w].buffered + 1 >= BUFFER_SIZE

\* lines 261-263: a data event that is not reported
DataBuffered(w) == ~Reports(w) /\ Data(w)

\* lines 261-263 with 530-545: the data event makes handleData start a
\* write and report the buffer to the progress callback
DataMeasured(w, measure) ==
  /\ Waiting(w, {"stream"})
  /\ workers[w].toSend > 0 /\ ~workers[w].responsePaused
  /\ Reports(w)
  /\ SetMgr(makeProgressCB(handleData([Mgr EXCEPT !.wk[w].toSend = @ - 1], w),
                           w, measure))
  /\ UNCHANGED <<nameVars, ret>>

\* line 940: 15 minutes have passed since download.started
Expires(d) ==
  /\ downloads[d].used /\ ~downloads[d].expired
  /\ downloads' = [downloads EXCEPT ![d].expired = TRUE]
  /\ UNCHANGED <<nameVars, ret, mQueue, mBusyWorkers, workers, pending, mNextId,
                 settings>>

\* lines 261-263 with 545 and 930-944: the data event makes handleData
\* write, and the progress callback finds the worker starving and restarts it
DataRestart(w) ==
  /\ Waiting(w, {"stream"})
  /\ workers[w].toSend > 0 /\ ~workers[w].responsePaused
  /\ w \in mBusyWorkers
  /\ ~workers[w].mEnded /\ ~workers[w].mRedirected /\ ~workers[w].mWriting
  /\ jobOf(Mgr, w).state = "running"
  /\ workers[w].buffered + 1 >= BUFFER_SIZE
  /\ SetMgr(restart(handleData([Mgr EXCEPT !.wk[w].toSend = @ - 1], w), w))
  /\ UNCHANGED <<nameVars, ret>>

\* lines 265-270
StreamEnd(w) ==
  /\ Waiting(w, {"stream"})
  /\ workers[w].toSend = 0 /\ ~workers[w].responsePaused
  /\ LET m0 == [Mgr EXCEPT !.wk[w].pc = "aborted"] IN
     SetMgr(IF workers[w].mRedirected THEN m0 ELSE handleComplete(m0, w))
  /\ UNCHANGED <<nameVars, ret>>

\* line 984: assembler.addChunk(offset, data) puts data at offset of the file
written(file, at, src) ==
  {e \in file : e[1] \notin at..(at + Len(src) - 1)}
    \cup {<<at + i - 1, src[i]>> : i \in DOMAIN src}

\* lines 474-479 and 979-1001: a call of dataCB settles; the call made on a
\* closed assembler rejects with ProcessCanceled, which the callers swallow
WriteAck(w) ==
  /\ workers[w].live /\ workers[w].inFlight # <<>>
  /\ LET h == Head(workers[w].inFlight)
         d == workers[w].d
         c == workers[w].c
         m0 == [Mgr EXCEPT !.wk[w].inFlight = Tail(@)]
         m1 == IF h.closed THEN m0
               ELSE [m0 EXCEPT
                       !.dls = [e \in DlIds |->
                                  IF @[e].used /\ @[e].tempName = @[d].tempName
                                  THEN [@[e] EXCEPT
                                          !.file = written(@, h.at, h.src)]
                                  ELSE @[e]],
                       !.dls[d].received = @ + h.len,
                       !.dls[d].size = Max(@, downloads[d].received + h.len),
                       !.dls[d].chunks[c].confirmedReceived = @ + h.len,
                       !.dls[d].chunks[c].confirmedOffset = @ + h.len,
                       !.dls[d].chunks[c].confirmedSize = @ - h.len]
     IN SetMgr(IF h.final
               THEN IF h.closed THEN [m1 EXCEPT !.wk[w].pc = "stuck"]
                    ELSE completed(m1, w)
               ELSE [m1 EXCEPT !.wk[w].mWriting = FALSE,
                               !.wk[w].responsePaused = FALSE])
  /\ UNCHANGED <<nameVars, ret>>

\* lines 378-392
RedirectTimer(w, cookies) ==
  /\ Waiting(w, {"wait"})
  /\ SetMgr(assignJob(redirectTimer(Mgr, w), w, TRUE, cookies))
  /\ UNCHANGED <<nameVars, ret>>

(***************************************************************************)
(* The state after construction (lines 565-600); the download directory    *)
(* holds any of the files of ExistingFiles.                                *)
(***************************************************************************)
Constructed ==
  /\ fs \in SUBSET ExistingFiles
  /\ res = [d \in DlIds |-> IdleRes]
  /\ mFileExistsCB = FALSE
  /\ mQueue = <<>>
  /\ downloads = [d \in DlIds |-> NoDownload]
  /\ mBusyWorkers = {}
  /\ workers = [w \in WorkerIds |-> NoWorker]
  /\ pending = {}
  /\ mNextId = 0
  /\ ret = [d \in DlIds |-> NoRet]

\* lines 594-595: the manager is constructed with the settings of the model
Init ==
  /\ Constructed
  /\ mMaxWorkers = MaxWorkers
  /\ mMaxChunks = MaxChunks

(***************************************************************************)
(* The reservation on its own: enqueue calls racing for file names.        *)
(***************************************************************************)
OpenOutcomes == {"ok", "EBADF", "closeError", "openError"}

NextName ==
  \/ SetFileExistsCB
  \/ \E d \in DlIds, urls \in UrlLists, fileName \in {NoName},
        redownload \in RedownloadModes, dirOk \in BOOLEAN :
        Enqueue(d, urls, fileName, redownload, dirOk)
  \/ \E d \in DlIds, outcome \in OpenOutcomes : OpenFile(d, outcome)
  \/ \E d \in DlIds, cont \in BOOLEAN : AnswerFileExists(d, cont)

SpecName == Init /\ [][NextName]_vars

(***************************************************************************)
(* The manager with its workers: downloads are resumed, paused and         *)
(* stopped while the events of their workers arrive.                       *)
(***************************************************************************)
InitManager == Init /\ fs = {}

ResponseKinds == {"ok", "html", "error"}

\* the calls on queued downloads
Calls ==
  \/ \E d \in DlIds : Pause(d)
  \/ \E d \in DlIds : Stop(d)

\* what the event loop delivers, but for the responses
Settled ==
  \/ \E d \in DlIds, ok \in BOOLEAN : AsmCreated(d, ok)
  \/ \E d \in DlIds : FinishTail(d)
  \/ \E w \in WorkerIds, hasUrl \in BOOLEAN, cookies \in {"throws", "later"} :
        UrlResolved(w, hasUrl, cookies)
  \/ \E w \in WorkerIds, ok \in BOOLEAN : CookiesSettled(w, ok)
  \/ \E w \in WorkerIds, retryable \in BOOLEAN : RequestError(w, retryable)
  \/ \E w \in WorkerIds : Data(w)
  \/ \E w \in WorkerIds : StreamEnd(w)
  \/ \E w \in WorkerIds : WriteAck(w)

Events ==
  \/ Calls
  \/ Settled
  \/ \E w \in WorkerIds, kind \in ResponseKinds, file \in Files :
        Response(w, kind, file)

Next ==
  \/ \E d \in DlIds, a \in ResumeArgs : Resume(d, a)
  \/ Events

Spec == InitManager /\ [][Next]_vars

(***************************************************************************)
(* One download on its own: of the calls of resume, one has chunks.        *)
(***************************************************************************)
ResumeOne(d, a) ==
  /\ a.chunks # <<>> => \A e \in DlIds : ~downloads[e].used
  /\ Resume(d, a)

NextOne ==
  \/ \E d \in DlIds, a \in ResumeArgs : ResumeOne(d, a)
  \/ Events

SpecOne == InitManager /\ [][NextOne]_vars

(***************************************************************************)
(* One download that is paused and resumed, once, from what pause          *)
(* returned.  The download starts as enqueue starts it, with the chunk of  *)
(* initChunk, and its server answers every request with the file.          *)
(***************************************************************************)
\* the files of the servers of this specification
FilesPause == Files \cup {[total |-> 2, ranges |-> TRUE]}

NextPause ==
  \/ \E d \in DlIds, a \in FreshArgs :
        (\A e \in DlIds : ret[e].call = "none") /\ Resume(d, a)
  \/ \E d, e \in DlIds : ResumeFrom(d, e)
  \/ \E d \in DlIds : Pause(d)
  \/ Settled
  \/ \E w \in WorkerIds, file \in FilesPause : Response(w, "ok", file)

SpecPause == InitManager /\ [][NextPause]_vars

(***************************************************************************)
(* One download that starts as enqueue starts it, from any kind of server: *)
(* the file is small or large, and the server honours byte ranges or sends *)
(* the whole file.                                                         *)
(***************************************************************************)
FilesAny == {[total |-> f.total, ranges |-> b] : f \in Files, b \in BOOLEAN}

NextServers ==
  \/ \E d \in DlIds, a \in FreshArgs : ResumeOne(d, a)
  \/ Calls
  \/ Settled
  \/ \E w \in WorkerIds, kind \in ResponseKinds, file \in FilesAny :
        Response(w, kind, file)

SpecServers == InitManager /\ [][NextServers]_vars

(***************************************************************************)
(* One download whose server may answer with redirects (lines 367-392).    *)
(***************************************************************************)
NextRedirect ==
  \/ \E d \in DlIds, a \in ResumeArgs : ResumeOne(d, a)
  \/ Settled
  \/ \E w \in WorkerIds, kind \in ResponseKinds \cup {"redirect"},
        file \in Files : Response(w, kind, file)
  \/ \E w \in WorkerIds, cookies \in {"throws", "later"} :
        RedirectTimer(w, cookies)

SpecRedirect == InitManager /\ [][NextRedirect]_vars

(***************************************************************************)
(* One download whose workers are restarted when they are slow, and whose  *)
(* server may answer with redirects.                                       *)
(***************************************************************************)
NextRestart ==
  \/ \E d \in DlIds, a \in FreshArgs : ResumeOne(d, a)
  \/ Settled
  \/ \E w \in WorkerIds : DataRestart(w)
  \/ \E w \in WorkerIds, kind \in {"ok", "redirect"}, file \in Files :
        Response(w, kind, file)
  \/ \E w \in WorkerIds, cookies \in {"throws", "later"} :
        RedirectTimer(w, cookies)

SpecRestart == InitManager /\ [][NextRestart]_vars

(***************************************************************************)
(* One download of a file of any size up to MaxFile, by a manager          *)
(* constructed with any settings; nothing fails.                           *)
(***************************************************************************)
FilesLayout == {[total |-> n, ranges |-> b] : n \in 1..MaxFile, b \in BOOLEAN}

\* lines 587-595: maxWorkers and maxChunks are what the caller passes
InitLayout ==
  /\ Constructed /\ fs = {}
  /\ mMaxWorkers \in 1..MaxChunks
  /\ mMaxChunks \in 1..MaxChunks

NextLayout ==
  \/ \E d \in DlIds, a \in FreshArgs : ResumeOne(d, a)
  \/ \E d \in DlIds : AsmCreated(d, TRUE)
  \/ \E w \in WorkerIds : UrlResolved(w, TRUE, "throws")
  \/ \E w \in WorkerIds, file \in FilesLayout : Response(w, "ok", file)
  \/ \E w \in WorkerIds : Data(w)
  \/ \E w \in WorkerIds : StreamEnd(w)
  \/ \E w \in WorkerIds : WriteAck(w)
  \/ \E d \in DlIds : FinishTail(d)

SpecLayout == InitLayout /\ [][NextLayout]_vars

(***************************************************************************)
(* Several downloads, of one or two chunks, by a manager constructed with  *)
(* any number of workers; the workers end by an error of their request or  *)
(* by pause, before any data.                                              *)
(***************************************************************************)
QueueArgs == {a \in ResumeArgs : a.chunks # <<>>}

\* the files served in ranges, which updateDownload splits into chunks
FilesQueue == {f \in Files : f.ranges}

InitQueue ==
  /\ Constructed /\ fs = {}
  /\ mMaxWorkers \in 1..MaxChunks
  /\ mMaxChunks = MaxChunks

NextQueue ==
  \/ \E d \in DlIds, a \in QueueArgs : Resume(d, a)
  \/ \E d \in DlIds : AsmCreated(d, TRUE)
  \/ \E w \in WorkerIds : UrlResolved(w, TRUE, "throws")
  \/ \E w \in WorkerIds, file \in FilesQueue : Response(w, "ok", file)
  \/ \E w \in WorkerIds : RequestError(w, FALSE)
  \/ \E d \in DlIds : Pause(d)

SpecQueue == InitQueue /\ [][NextQueue]_vars

(***************************************************************************)
(* One download whose server names the file, in a directory that may hold  *)
(* files; the rename may fail, the download may be paused.                 *)
(***************************************************************************)
NextRename ==
  \/ \E d \in DlIds, a \in FreshArgs : ResumeOne(d, a)
  \/ \E d \in DlIds : AsmCreated(d, TRUE)
  \/ \E w \in WorkerIds : UrlResolved(w, TRUE, "throws")
  \/ \E w \in WorkerIds, file \in Files, fileName \in ServerNames :
        ResponseNamed(w, file, fileName)
  \/ \E d \in DlIds : NameReserved(d)
  \/ \E d \in DlIds, ok \in BOOLEAN : Renamed(d, ok)
  \/ \E w \in WorkerIds : Data(w)
  \/ \E w \in WorkerIds : StreamEnd(w)
  \/ \E w \in WorkerIds : WriteAck(w)
  \/ \E d \in DlIds : Pause(d)
  \/ \E d \in DlIds : FinishTail(d)

SpecRename == Init /\ [][NextRename]_vars

(***************************************************************************)
(* One download resumed with one chunk that takes more samples than        *)
(* SLOW_LIMIT, every write reported to the progress callback.              *)
(***************************************************************************)
SlowSize == SLOW_LIMIT + 2

\* a download interrupted after its first block
SlowArgs ==
  {[received |-> 1, size |-> SlowSize + 1,
    chunks |-> <<[received |-> 1, offset |-> 1, size |-> SlowSize]>>]}

FilesSlow == {[total |-> SlowSize + 1, ranges |-> TRUE]}

NextSlow ==
  \/ \E d \in DlIds, a \in SlowArgs : ResumeOne(d, a)
  \/ \E d \in DlIds : AsmCreated(d, TRUE)
  \/ \E d \in DlIds : Expires(d)
  \/ \E w \in WorkerIds : UrlResolved(w, TRUE, "throws")
  \/ \E w \in WorkerIds, file \in FilesSlow : Response(w, "ok", file)
  \/ \E w \in WorkerIds, measure \in Measures : DataMeasured(w, measure)
  \/ \E w \in WorkerIds : DataBuffered(w)
  \/ \E w \in WorkerIds : StreamEnd(w)
  \/ \E w \in WorkerIds : WriteAck(w)
  \/ \E d \in DlIds : Pause(d)
  \/ \E d \in DlIds : FinishTail(d)

SpecSlow == InitManager /\ [][NextSlow]_vars

(***************************************************************************)
(* One download of a file that fits one chunk, with redirects.             *)
(***************************************************************************)
FilesSingle == {f \in FilesPause : f.total <= MinChunkSize + 1}

NextFollow ==
  \/ \E d \in DlIds, a \in FreshArgs : ResumeOne(d, a)
  \/ Calls
  \/ Settled
  \/ \E w \in WorkerIds, kind \in ResponseKinds \cup {"redirect"},
        file \in FilesSingle : Response(w, kind, file)
  \/ \E w \in WorkerIds, cookies \in {"throws", "later"} :
        RedirectTimer(w, cookies)

SpecFollow == InitManager /\ [][NextFollow]_vars

(***************************************************************************)
(* One download that enqueue queues, with or without a file name: its name *)
(* is reserved among the files of the directory, then its workers run.     *)
(***************************************************************************)
NextEnqueue ==
  \/ \E d \in DlIds, fileName \in FileNameArgs :
        /\ \A e \in DlIds : ret[e].call = "none"
        /\ Enqueue(d, <<UrlMod>>, fileName, "always", TRUE)
  \/ \E d \in DlIds : OpenFile(d, "ok")
  \/ Settled
  \/ \E w \in WorkerIds, kind \in ResponseKinds, file \in Files :
        Response(w, kind, file)

SpecEnqueue == Init /\ [][NextEnqueue]_vars

(***************************************************************************)
(* Filename reservation: claims C3 to C8, under SpecName.                  *)
(***************************************************************************)
Returned(d) == res[d].pc = "done"
\* the reservation returned from the 'replace' branch of line 1273
ViaReplace(d) == res[d].branch = "replace"
QueuePositions(d) == {i \in DOMAIN mQueue : mQueue[i] = d}

C4_ReplaceReturnsExisting ==
  \A d \in DlIds :
    (Returned(d) /\ res[d].redownload = "replace" /\ res[d].collided) =>
      /\ res[d].fullPath = res[d].fileName
      /\ downloads[d].tempName = res[d].fileName

\* C5: with redownload 'never' and the first candidate present, the
\* reservation rejects with AlreadyDownloaded and creates nothing, with or
\* without a registered callback.
C5_NeverRejects ==
  \A d \in DlIds :
    (res[d].redownload = "never" /\ res[d].collided) =>
      /\ res[d].pc = "rejected"
      /\ res[d].result = "AlreadyDownloaded"
      /\ res[d].created = {}

\* C6: with redownload 'always' and the first candidate present, the loop
\* tries at most as many candidates as there are files, and what it returns
\* is base.N.ext for the smallest N >= 1 that did not exist, created by it.
C6_AlwaysSmallestSuffix ==
  \A d \in DlIds :
    (res[d].redownload = "always" /\ res[d].collided) =>
      /\ res[d].counter <= Cardinality(fs)
      /\ Returned(d) =>
           \E n \in 1..Cardinality(fs) :
             /\ res[d].fullPath =
                  basename(res[d].fileName) \o <<Digits[n]>>
                    \o extname(res[d].fileName)
             /\ res[d].created = {res[d].fullPath}
             /\ \A k \in 1..(n - 1) :
                  (basename(res[d].fileName) \o <<Digits[k]>>
                     \o extname(res[d].fileName)) \in fs

\* an 'always' reservation that had to go past base.1.ext
C6_Witness ==
  \E d \in DlIds :
    /\ res[d].redownload = "always" /\ res[d].collided
    /\ Returned(d)
    /\ res[d].fullPath \notin {ModZip, Mod1Zip}

\* C7: with redownload 'ask' and the callback answering false, enqueue
\* rejects with UserCanceled, the reservation created no file and the
\* download is not queued.
C7_AskDeclined ==
  \A d \in DlIds :
    (res[d].redownload = "ask" /\ res[d].answer = "no") =>
      /\ res[d].pc = "rejected"
      /\ ret[d].err = "UserCanceled"
      /\ res[d].created = {}
      /\ ~downloads[d].used
      /\ QueuePositions(d) = {}

C7_Witness ==
  \E d \in DlIds :
    res[d].redownload = "ask" /\ res[d].answer = "no" /\ res[d].collided

\* C8: enqueue with an empty URL list rejects with DataInvalid and leaves
\* the queue and the file system as they were.
C8_EmptyUrlsDataInvalid ==
  \A d \in DlIds :
    (ret[d].call = "enqueue" /\ ret[d].nUrls = 0) =>
      /\ ret[d].err = "DataInvalid"
      /\ ~downloads[d].used
      /\ QueuePositions(d) = {}
      /\ res[d].created = {}

(***************************************************************************)
(* The manager and its workers: claims C1 and C2 under Spec, C9 and C10    *)
(* under SpecOne.                                                          *)
(***************************************************************************)
\* C1: in every reachable state the busy-worker table holds at most
\* maxWorkers workers.
C1_BusyWithinMaxWorkers == Cardinality(mBusyWorkers) <= MaxWorkers

\* C2: every DownloadWorker calls its finish callback at most once over its
\* whole life.
C2_FinishCalledOnce == \A w \in WorkerIds : workers[w].finished <= 1

\* the step is a call of resume for d with an empty list of chunks
ResumesNothing(d) ==
  /\ ret[d].call = "none"
  /\ ret'[d].call = "resume"
  /\ ret'[d].nChunks = 0

\* C9: resume called with an empty list of chunks rejects with
\* ProcessCanceled, adds nothing to the queue and starts no worker.
C9_ResumeWithoutChunks ==
  [][\A d \in DlIds :
       ResumesNothing(d) =>
         /\ ret'[d].err = "ProcessCanceled"
         /\ UNCHANGED <<mQueue, mBusyWorkers, workers, pending, mNextId>>]_vars

\* resume rejected for want of chunks while another download was queued with
\* a chunk waiting for a worker and no worker in the table
C9_Witness ==
  \E d, e \in DlIds :
    /\ ret[d].call = "resume" /\ ret[d].nChunks = 0
    /\ ret[d].err = "ProcessCanceled"
    /\ QueuePositions(e) # {}
    /\ \E i \in DOMAIN downloads[e].chunks : downloads[e].chunks[i].state = "init"
    /\ mBusyWorkers = {}

\* the step is a call of pause for d, which is queued
Pauses(d) == ~ret[d].paused /\ ret'[d].paused

\* C10: pause of a queued download returns, for every chunk that is running
\* with size > 0, a checkpoint with the confirmed received, offset and size
\* of the chunk; when it returns the worker of each such chunk is not in the
\* busy table and the download is not in the queue.
C10_PauseCheckpoints ==
  [][\A d \in DlIds :
       Pauses(d) =>
         /\ \A i \in DOMAIN downloads[d].chunks :
              LET ch == downloads[d].chunks[i] IN
              ch.state = "running" /\ ch.size > 0 =>
                /\ \E k \in DOMAIN ret'[d].chunks :
                     ret'[d].chunks[k] =
                       [received |-> ch.confirmedReceived,
                        offset |-> ch.confirmedOffset,
                        size |-> ch.confirmedSize]
                /\ ch.workerId \notin mBusyWorkers'
         /\ \A k \in DOMAIN mQueue' : mQueue'[k] # d]_vars

\* a download was paused while a write of a running chunk was in flight: the
\* checkpoint holds the confirmed counters, which differ from the in-flight
\* ones, and the worker of the chunk has finished and left the table
C10_Witness ==
  \E d \in DlIds :
    /\ ret[d].paused
    /\ \E i \in DOMAIN downloads[d].chunks :
         LET ch == downloads[d].chunks[i] IN
         /\ ch.workerId >= 0
         /\ workers[ch.workerId].inFlight # <<>>
         /\ workers[ch.workerId].finished = 1
         /\ ch.workerId \notin mBusyWorkers
         /\ ch.received > ch.confirmedReceived
         /\ \E k \in DOMAIN ret[d].chunks :
              ret[d].chunks[k] =
                [received |-> ch.confirmedReceived,
                 offset |-> ch.confirmedOffset, size |-> ch.confirmedSize]
(***************************************************************************)
(* The bytes of the file: claims C11 and C12.                              *)
(***************************************************************************)
\* every chunk of download d has finished, and not by a call of stop, and
\* no write is left in flight
AllFinished(d) ==
  /\ downloads[d].used /\ ~ret[d].stopped
  /\ \A w \in WorkerIds : workers[w].live => workers[w].inFlight = <<>>
  /\ \A i \in DOMAIN downloads[d].chunks :
        downloads[d].chunks[i].state = "finished"

\* every offset of the remote file holds the byte the server has there
Complete(d) ==
  /\ downloads[d].remote > 0
  /\ \A o \in 0..(downloads[d].remote - 1) : <<o, o>> \in downloads[d].file

\* download d continues a paused download from its checkpoints
Continues(d) == ret[d].from > 0 /\ downloads[d].used

StartedEmpty(d) == ret[d].call = "resume" /\ ret[d].from = 0 /\ ret[d].fresh

\* download d has concluded through finishCB, without an error, with every
\* chunk finished
Concluded(d) ==
  /\ AllFinished(d) /\ downloads[d].finishCB > 0
  /\ downloads[d].failedCB = 0 /\ ~downloads[d].error

\* C12: when a download concludes with every chunk finished, the writes
\* handed to the assembler cover every offset in [0, size) with the byte of
\* the remote file at that offset, with or without redirects.
C12_EveryOffsetWritten ==
  \A d \in DlIds : StartedEmpty(d) /\ Concluded(d) => Complete(d)

(***************************************************************************)
(* The counters of the chunks: claims C13 and C14.                         *)
(***************************************************************************)
RECURSIVE SumConfirmed(_)
SumConfirmed(chunks) ==
  IF chunks = <<>> THEN 0
  ELSE Head(chunks).confirmedReceived + SumConfirmed(Tail(chunks))

\* C13: in every reachable state of a download, enqueued or resumed, the
\* confirmedReceived of its chunks add up to the received counter of the
\* download.
C13_ReceivedIsSum ==
  \A d \in DlIds :
    downloads[d].used => SumConfirmed(downloads[d].chunks) = downloads[d].received

\* C14: for every chunk job received >= confirmedReceived in every reachable
\* state, across redirects, retries and write acknowledgements that arrive
\* after the counters were reset.
C14_ReceivedCoversConfirmed ==
  \A d \in DlIds : \A i \in DOMAIN downloads[d].chunks :
    downloads[d].chunks[i].received >= downloads[d].chunks[i].confirmedReceived

(***************************************************************************)
(* Redirects: claim C15.                                                   *)
(***************************************************************************)
\* the worker waits for something that leads to a request, or for the
\* response to one
Requesting(w) ==
  workers[w].live /\ workers[w].pc \in {"url", "cookies", "request", "wait"}

\* C15: a worker follows at most MAX_REDIRECT_FOLLOW redirects: the redirect
\* that comes after them is turned into an HTTPError, the worker has ended
\* and issues no further request.
C15_RedirectsBounded ==
  \A w \in WorkerIds :
    /\ workers[w].mRedirectsFollowed <= MAX_REDIRECT_FOLLOW
    /\ workers[w].refused =>
          /\ workers[w].mRedirectsFollowed = MAX_REDIRECT_FOLLOW
          /\ workers[w].mEnded /\ ~Requesting(w)

\* a worker was redirected a third time
C15_Witness ==
  \E w \in WorkerIds :
    /\ workers[w].refused /\ workers[w].mRedirectsFollowed = MAX_REDIRECT_FOLLOW
    /\ workers[w].finished > 0

(***************************************************************************)
(* Errors of workers: claims C16 and C17.                                  *)
(***************************************************************************)
\* the workers of download d that have not ended
ActiveWorkers(d) ==
  {w \in WorkerIds : workers[w].live /\ workers[w].d = d /\ ~workers[w].mEnded}

\* the chunks of download d a worker is yet to be constructed for
PendingStarts(d) == {p \in pending : p.d = d}

\* C16: once the worker of the first chunk has reported an error, failedCB
\* was invoked, every worker of the download is cancelled, and no chunk of
\* the download is running or started by a later tick of the scheduler.
C16_ErrorStopsDownload ==
  \A d \in DlIds :
    downloads[d].cancelled =>
      /\ downloads[d].failedCB > 0
      /\ ActiveWorkers(d) = {} /\ PendingStarts(d) = {}
      /\ \A i \in DOMAIN downloads[d].chunks :
            downloads[d].chunks[i].state # "running"

\* handleError has ended worker w, which downloads a chunk other than the
\* first of its download
FailedChunk(w) ==
  /\ workers[w].live /\ workers[w].errored
  /\ ~downloads[workers[w].d].chunks[workers[w].c].errorCB

\* what the error of worker w leaves behind: its chunk is paused with bytes
\* left to fetch and the download is marked as having had errors
LeftUnfinished(w) ==
  LET dl == downloads[workers[w].d] IN
  /\ dl.chunks[workers[w].c].state = "paused"
  /\ dl.chunks[workers[w].c].size > 0
  /\ dl.error

\* the step in which worker w fails leaves failedCB and the other workers of
\* the download alone
FailsAlone(w) ==
  ~FailedChunk(w) /\ FailedChunk(w)' =>
    /\ downloads'[workers[w].d].failedCB = downloads[workers[w].d].failedCB
    /\ \A v \in WorkerIds \ {w} :
          workers[v].live => workers'[v].mEnded = workers[v].mEnded

\* the step in which finishCB is invoked reports the failure of worker w
ReportsFailure(w) ==
  LET d == workers[w].d IN
  FailedChunk(w) /\ downloads'[d].finishCB > downloads[d].finishCB =>
    /\ downloads'[d].result.hadErrors
    /\ workers[w].c \in downloads'[d].result.unfinishedChunks

HasResidue(w) ==
  workers[w].live /\ downloads[workers[w].d].chunks[workers[w].c].size > 0

Stops(d) == ~ret[d].stopped /\ ret'[d].stopped

\* no worker was ever assigned to a chunk of download d
NeverStarted(d) ==
  \A i \in DOMAIN downloads[d].chunks : downloads[d].chunks[i].workerId = -1

\* C18: stop(d) on a queued download turns every chunk in state init into
\* finished, cancels every running worker of the download, removes the
\* download from the queue, and invokes failedCB(UserCanceled) exactly when
\* no chunk of the download was ever started.
C18_StopQueued ==
  [][\A d \in DlIds : Stops(d) =>
       /\ \A i \in DOMAIN downloads[d].chunks :
             downloads[d].chunks[i].state = "init"
               => downloads'[d].chunks[i].state = "finished"
       /\ \A w \in mBusyWorkers :
             workers[w].d = d /\ jobOf(Mgr, w).state = "running"
               => workers'[w].mEnded
       /\ QueuePositions(d)' = {}
       /\ downloads'[d].failedCB =
             downloads[d].failedCB + (IF NeverStarted(d) THEN 1 ELSE 0)]_vars

(***************************************************************************)
(* The terminal callbacks: claim C19.                                      *)
(***************************************************************************)
\* C19: for each download at most one terminal callback is invoked:
\* finishCB and failedCB are never both invoked and neither is invoked
\* twice.
C19_OneTerminalCallback ==
  \A d \in DlIds : downloads[d].finishCB + downloads[d].failedCB <= 1

(***************************************************************************)
(* Downloads that are not split: claim C20.                                *)
(***************************************************************************)
\* download d started with one chunk and its first response told that the
\* file is no larger than the minimal chunk or that the server has no ranges
NotSplit(d) ==
  /\ downloads[d].used /\ ret[d].nChunks = 1
  /\ downloads[d].remote > 0
  /\ downloads[d].remote <= MinChunkSize \/ ~downloads[d].ranges

\* the workers constructed for download d, and those yet to be constructed
WorkersOf(d) ==
  {w \in WorkerIds : workers[w].live /\ workers[w].d = d}
    \cup {p.wid : p \in PendingStarts(d)}

\* C20: a download whose first response reports a file of at most
\* MinChunkSize, or comes from a server without Content-Range, keeps exactly
\* one chunk for its whole life and never has more than one worker.
C20_OneChunkOneWorker ==
  \A d \in DlIds :
    NotSplit(d) => Len(downloads[d].chunks) = 1 /\ Cardinality(WorkersOf(d)) <= 1

\* a large file was downloaded in one chunk from a server without ranges
C20_Witness ==
  \E d \in DlIds :
    /\ NotSplit(d) /\ downloads[d].remote > MinChunkSize
    /\ Len(downloads[d].chunks) = 1
    /\ downloads[d].chunks[1].state = "finished"
    /\ downloads[d].finishCB > 0

(***************************************************************************)
(* The output file cannot be created: claim C21.                           *)
(***************************************************************************)
\* the step in which FileAssembler.create fails for download d
CreateFails(d) == downloads[d].asm = "creating" /\ downloads'[d].asm = "failed"

\* C21: when creating the output file of a download fails at worker start,
\* failedCB of that download is invoked and that download, and no other, is
\* removed from the queue.
C21_CreateFailureFailsDownload ==
  [][\A d \in DlIds : CreateFails(d) =>
       /\ downloads'[d].failedCB > downloads[d].failedCB
       /\ QueuePositions(d)' = {}
       /\ \A e \in DlIds \ {d} :
             /\ downloads'[e].failedCB = downloads[e].failedCB
             /\ QueuePositions(e) # {} => QueuePositions(e)' # {}]_vars

(***************************************************************************)
(* HTML instead of a file: claim C22.                                      *)
(***************************************************************************)
\* the step invokes finishCB of download d
Finishes(d) == downloads'[d].finishCB > downloads[d].finishCB

\* the headers of download d are those of an HTML page, its file is not
\* named .html, and it has no finalName that differs from tempName
KeepsHtml(d) ==
  /\ ~(downloads[d].finalName # NoName
         /\ downloads[d].finalName # downloads[d].tempName)
  /\ downloads[d].headers = "html"
  /\ ~endsWithHtml(downloads[d].tempName)

\* C22: when a download concludes without a finalName that differs from
\* tempName, with headers of content type text/html and a tempName that does
\* not end in .html, its file is removed before finishCB is invoked.
C22_HtmlFileRemoved ==
  [][\A d \in DlIds :
       Finishes(d) /\ KeepsHtml(d) => downloads[d].tempName \notin fs']_vars

(***************************************************************************)
(* Workers that have ended: claims C23 and C24.                            *)
(***************************************************************************)
\* worker w has invoked its finish callback
HasFinished(w) == workers[w].live /\ workers[w].finished > 0

\* the step issues an HTTP request for worker w
IssuesRequest(w) == workers[w].pc # "request" /\ workers'[w].pc = "request"

\* the step calls dataCB for worker w
WritesData(w) == Len(workers'[w].inFlight) > Len(workers[w].inFlight)

\* the step sets the chunk of worker w back to running
Revives(w) ==
  /\ downloads[workers[w].d].chunks[workers[w].c].state # "running"
  /\ downloads'[workers[w].d].chunks[workers[w].c].state = "running"

\* C23: after a worker has invoked its finish callback it issues no further
\* HTTP request, makes no further dataCB write, and its chunk is not set back
\* to running; a redirect whose timer is pending when the worker is cancelled
\* or paused does not revive it.
C23_FinishedWorkerStaysEnded ==
  [][\A w \in WorkerIds :
       HasFinished(w) => ~IssuesRequest(w) /\ ~WritesData(w) /\ ~Revives(w)]_vars

\* the step constructs DownloadWorker w for a chunk of download d
Constructs(w, d) ==
  ~workers[w].live /\ workers'[w].live /\ workers'[w].d = d

\* C24: after stop(d) or pause(d) has returned no DownloadWorker is
\* constructed for a chunk of download d, even when the call was made while
\* the creation of the assembler was pending after a tick had marked a chunk
\* running.
C24_NoWorkerAfterStopOrPause ==
  [][\A d \in DlIds :
       ret[d].stopped \/ ret[d].paused =>
         \A w \in WorkerIds : ~Constructs(w, d)]_vars

(***************************************************************************)
(* The range of the request after a redirect: claim C25.                   *)
(***************************************************************************)
\* the step is the timer of a redirect worker w follows, and the request is
\* issued again.  The counters of the job are then still those the
\* redirected request was made with: nothing moves them while the worker
\* waits for the response or for the timer.
Reissues(w) ==
  /\ workers[w].live /\ workers[w].pc = "wait"
  /\ workers'[w].pc \in {"cookies", "request"}

\* C25: after a followed redirect the request is issued again for the byte
\* range of the redirected request: offset and size of the job are what they
\* were before the redirected request was made, whatever the offset of the
\* chunk.
C25_RedirectKeepsRange ==
  [][\A w \in WorkerIds :
       Reissues(w) =>
         LET d == workers[w].d
             c == workers[w].c
         IN /\ downloads'[d].chunks[c].offset = downloads[d].chunks[c].offset
            /\ downloads'[d].chunks[c].size = downloads[d].chunks[c].size]_vars

(***************************************************************************)
(* Errors that are retried: claim C26.                                     *)
(***************************************************************************)
\* the step is an ESOCKETTIMEDOUT or ECONNRESET error of worker w, which has
\* not ended and has received data on this attempt
TimesOutAfterData(w) ==
  /\ workers[w].live /\ ~workers[w].mEnded /\ workers[w].hasHistory
  /\ RequestError(w, TRUE)

\* C26: a worker that gets ESOCKETTIMEDOUT or ECONNRESET after at least one
\* data event on the current attempt resolves the URL again and re-issues
\* the request for the same job with its current counters, without invoking
\* the finish callback and without failing the download, for the first
\* chunk as for the others.
C26_RetryAfterData ==
  [][\A w \in WorkerIds :
       TimesOutAfterData(w) =>
         LET d == workers[w].d
             c == workers[w].c
         IN /\ workers'[w].pc = "url"
            /\ workers'[w].finished = workers[w].finished
            /\ downloads'[d].failedCB = downloads[d].failedCB
            /\ downloads'[d].chunks[c] = downloads[d].chunks[c]]_vars

(***************************************************************************)
(* The confirmed ranges of the chunks: claims C27 and C28.                 *)
(***************************************************************************)
\* the offsets in [confirmedOffset, confirmedOffset + confirmedSize)
ConfirmedRange(ch) ==
  ch.confirmedOffset..(ch.confirmedOffset + ch.confirmedSize - 1)

RECURSIVE SumConfirmedSize(_)
SumConfirmedSize(chunks) ==
  IF chunks = <<>> THEN 0
  ELSE Head(chunks).confirmedSize + SumConfirmedSize(Tail(chunks))

\* the server has reported the size of the file of download d, and it is the
\* size the download was declared with, if it was declared with one
SizeStands(d) ==
  /\ downloads[d].used /\ downloads[d].remote > 0
  /\ ret[d].declared \in {-1, downloads[d].remote}

\* C27: in every reachable state the ranges [confirmedOffset,
\* confirmedOffset + confirmedSize) of the chunks of a download are pairwise
\* disjoint, and their lengths and the bytes durably received add up to the
\* size of the file, as long as the size the server reports does not change.
C27_ConfirmedRangesPartition ==
  \A d \in DlIds : SizeStands(d) =>
    /\ \A i, j \in DOMAIN downloads[d].chunks :
          i # j => ConfirmedRange(downloads[d].chunks[i])
                     \cap ConfirmedRange(downloads[d].chunks[j]) = {}
    /\ SumConfirmedSize(downloads[d].chunks) + downloads[d].received
          = downloads[d].remote

\* the step is a response to the request of chunk i of download d whose
\* content-length is not the size of the job
ReportsOtherSize(d, i) ==
  \E w \in WorkerIds :
    /\ workers[w].live /\ workers[w].d = d /\ workers[w].c = i
    /\ workers[w].pc = "request" /\ workers'[w].pc = "stream"
    /\ bodyLength(downloads'[d], downloads[d].chunks[i])
         # downloads[d].chunks[i].size

\* C28: confirmedReceived + confirmedSize of a chunk job keeps its value
\* across every write acknowledgement, redirect reset and retry; it changes
\* only when a response reports a chunk size that is not the size of the job.
C28_ConfirmedTotalConstant ==
  [][\A d \in DlIds :
       downloads[d].used =>
         \A i \in DOMAIN downloads[d].chunks :
           LET old == downloads[d].chunks[i]
               new == downloads'[d].chunks[i]
           IN new.confirmedReceived + new.confirmedSize
                 # old.confirmedReceived + old.confirmedSize
              => ReportsOtherSize(d, i)]_vars

(***************************************************************************)
(* The chunks of a download: claims C29 and C30.                           *)
(***************************************************************************)
\* the least integer that is at least a / b
Ceil(a, b) == CHOOSE q \in 0..a : q * b >= a /\ (q - 1) * b < a

\* the size of the chunks of a file of fileSize, for the settings of the
\* manager
ChunkSizeOf(fileSize) ==
  LET remaining == fileSize - MinChunkSize IN
  Min(remaining,
      Max(MinChunkSize, Ceil(remaining, Min(mMaxChunks, mMaxWorkers))))

\* the k for which MinChunkSize + 1 + k * chunk size is below fileSize
AppendedAt(fileSize) ==
  {k \in 0..fileSize : MinChunkSize + 1 + k * ChunkSizeOf(fileSize) < fileSize}

\* the step is the first response of download d, which has its first chunk
\* only
FirstResponse(d) ==
  /\ downloads[d].used /\ Len(downloads[d].chunks) = 1
  /\ downloads[d].remote = 0 /\ downloads'[d].remote > 0

\* C29: when the first response reports a file larger than MinChunkSize
\* with a Content-Range, updateDownload appends chunks at the offsets
\* MinChunkSize + 1 + k * chunkSize (k = 0, 1, ...) below the file size, each
\* of size min(chunkSize, fileSize - offset), where chunkSize =
\* min(remaining, max(MinChunkSize, ceil(remaining / min(maxChunks,
\* maxWorkers)))) and remaining = fileSize - MinChunkSize.  The chunks are
\* appended in state init; the tick that ends updateDownload may start them.
C29_ChunkLayout ==
  [][\A d \in DlIds :
       FirstResponse(d) /\ downloads'[d].remote > MinChunkSize
                        /\ downloads'[d].ranges =>
         LET fileSize == downloads'[d].remote
             chunkSize == ChunkSizeOf(fileSize)
             new == downloads'[d].chunks
         IN /\ Len(new) = 1 + Cardinality(AppendedAt(fileSize))
            /\ \A k \in AppendedAt(fileSize) :
                  LET offset == MinChunkSize + 1 + k * chunkSize
                      size == Min(chunkSize, fileSize - offset)
                  IN /\ new[k + 2].offset = offset
                     /\ new[k + 2].confirmedOffset = offset
                     /\ new[k + 2].size = size
                     /\ new[k + 2].confirmedSize = size
                     /\ new[k + 2].received = 0
                     /\ new[k + 2].confirmedReceived = 0
                     /\ \/ new[k + 2].state = "init"
                        \/ /\ new[k + 2].state = "running"
                           /\ new[k + 2].workerId >= mNextId]_vars

\* a file was laid out in three chunks, the last one shorter than the
\* chunk size
C29_Witness ==
  \E d \in DlIds :
    /\ downloads[d].ranges /\ downloads[d].remote > MinChunkSize
    /\ ret[d].fresh
    /\ Len(downloads[d].chunks) = 3
    /\ downloads[d].chunks[3].state = "init"
    /\ downloads[d].chunks[3].offset
         = MinChunkSize + 1 + ChunkSizeOf(downloads[d].remote)
    /\ downloads[d].chunks[3].size < ChunkSizeOf(downloads[d].remote)

\* C30: the number of chunks of a download never exceeds the maxChunks
\* setting of the manager, for every file size and every setting of
\* maxChunks and maxWorkers.
C30_ChunksWithinMaxChunks ==
  \A d \in DlIds : Len(downloads[d].chunks) <= mMaxChunks

(***************************************************************************)
(* C31: what the finish callback of a worker leaves (lines 1149-1158).     *)
(***************************************************************************)
\* the finish callback of worker w has run
FinishRan(w) == workers[w].live /\ workers[w].finished > 0

\* the finish callback of worker w runs in this step
FinishRuns(w) ==
  /\ workers'[w].live
  /\ workers'[w].finished > (IF workers[w].live THEN workers[w].finished ELSE 0)

\* the download d of this step gets its error flag set
ErrorRaised(d) ==
  /\ downloads[d].used /\ downloads'[d].used
  /\ ~downloads[d].error /\ downloads'[d].error

\* a finish that was not interrupted and left a residual size
FinishedShort(f) == ~f.interrupted /\ f.size > 0

\* what the last finish callback of every worker left
FinishLeaves ==
  \A w \in WorkerIds :
    FinishRan(w) =>
      LET f == workers[w].lastFinish IN
      /\ ~f.busy
      /\ f.state = IF f.interrupted \/ f.size > 0 THEN "paused" ELSE "finished"
      /\ f.error = (f.errorBefore \/ FinishedShort(f))

\* C31: when the finish callback of a worker runs, the slot of the worker is
\* removed from the busy table, the state of the chunk becomes paused if the
\* finish was interrupted or the residual size of the chunk is > 0 and
\* finished otherwise, and the error flag of a download is set exactly by a
\* finish that was not interrupted and had a residual size > 0.
C31_FinishChunkOutcome ==
  /\ []FinishLeaves
  /\ [][\A d \in DlIds :
          ErrorRaised(d) =>
            \E w \in WorkerIds :
              /\ FinishRuns(w) /\ workers'[w].d = d
              /\ FinishedShort(workers'[w].lastFinish)]_vars

\* a finish that was not interrupted left the chunk paused and the error
\* flag set, and an interrupted one left another download without the flag
C31_Witness ==
  \E w \in WorkerIds :
    /\ FinishRan(w)
    /\ FinishedShort(workers[w].lastFinish)
    /\ workers[w].lastFinish.state = "paused"
    /\ ~workers[w].lastFinish.errorBefore
    /\ downloads[workers[w].d].error
    /\ w \notin mBusyWorkers

(***************************************************************************)
(* C32: finishCB comes after the chunks ended and the assembler closed.    *)
(***************************************************************************)
\* the step calls dataCB for worker w: a call is added to those in flight
CallsDataCB(w) ==
  /\ workers[w].live /\ workers'[w].live
  /\ workers'[w].inFlight # <<>>
  /\ workers'[w].inFlight # workers[w].inFlight
  /\ workers[w].inFlight # <<>> =>
       workers'[w].inFlight # Tail(workers[w].inFlight)

\* the call of dataCB the step makes for worker w
NewWrite(w) == workers'[w].inFlight[Len(workers'[w].inFlight)]

\* close() of the assembler of download d was called and has completed
CloseCompleted(d) == downloads[d].asm = "closed" /\ downloads[d].finishCB > 0

\* C32: finishCB of a download is invoked only when every chunk of the
\* download is paused or finished and only as the continuation of a close()
\* of its assembler, and once that close has completed no call of dataCB for
\* the download is accepted.
C32_FinishAfterChunksAndClose ==
  [][\A d \in DlIds :
       /\ Finishes(d) =>
            /\ allTerminal(Mgr, d)
            /\ downloads[d].asm = "closed" /\ downloads[d].closing > 0
       /\ \A w \in WorkerIds :
            CloseCompleted(d) /\ CallsDataCB(w) /\ workers'[w].d = d =>
              NewWrite(w).closed]_vars

\* finishCB is invoked only when every chunk is paused or finished
C32_FinishWhenChunksEnded ==
  [][\A d \in DlIds : Finishes(d) => allTerminal(Mgr, d)]_vars

\* a call of dataCB made after close() completed is rejected
C32_NoWriteAfterClose ==
  [][\A d \in DlIds : \A w \in WorkerIds :
       CloseCompleted(d) /\ CallsDataCB(w) /\ workers'[w].d = d =>
         NewWrite(w).closed]_vars

\* a write was attempted after close() completed
C32_LateWrite ==
  \E w \in WorkerIds :
    /\ workers[w].live /\ workers[w].inFlight # <<>>
    /\ CloseCompleted(workers[w].d)
    /\ workers[w].inFlight[Len(workers[w].inFlight)].closed

(***************************************************************************)
(* C33: when the manager restarts a slow worker (lines 930-949).           *)
(***************************************************************************)
\* the step calls restart() on worker w
Restarts(w) ==
  /\ workers[w].live /\ workers'[w].live
  /\ ~workers[w].mRestart /\ workers'[w].mRestart

\* the step reports a healthy sample of worker w and no starving one
HealthySample(w) ==
  /\ workers[w].live /\ workers'[w].live
  /\ workers[w].streak > 0 /\ workers'[w].streak = 0

\* C33: the manager calls restart() on a worker only when the worker has
\* accumulated more than 15 starving samples with no healthy sample in
\* between and the download started less than 15 minutes ago; the restart
\* clears the slow counter of the worker, and so does a healthy sample.
C33_RestartOnlyAfterStarving ==
  [][\A w \in WorkerIds :
       /\ Restarts(w) =>
            /\ workers'[w].streak > SLOW_LIMIT
            /\ workers[w].slow + 1 > SLOW_LIMIT
            /\ ~downloads[workers[w].d].expired
            /\ workers'[w].slow = 0
       /\ HealthySample(w) => workers'[w].slow = 0]_vars

\* a worker was restarted and counts starving samples again
C33_Witness ==
  \E w \in WorkerIds :
    /\ workers[w].live /\ workers[w].mRestart
    /\ workers[w].streak > SLOW_LIMIT /\ workers[w].slow = 0

(***************************************************************************)
(* C34: what restart() does to a worker (lines 198-202, 330-359).          *)
(***************************************************************************)
\* worker w was restarted and has not started its job again, nor was ended
Restarting(w) ==
  workers[w].live /\ workers[w].mRestart /\ ~workers[w].mEnded

\* the step is the one in which handleComplete starts the job of w again
StartsAgain(w) ==
  /\ Restarting(w) /\ workers'[w].live
  /\ ~workers'[w].mRestart /\ ~workers'[w].mEnded

\* the step receives the response to a request of w for a range
RangeAnswered(w) ==
  /\ Waiting(w, {"request"}) /\ workers'[w].live /\ workers'[w].pc = "stream"
  /\ downloads'[workers[w].d].ranges

\* the slot and the chunk of w as restart() must leave them
KeepsRunning(w) ==
  /\ w \in mBusyWorkers'
  /\ workers'[w].finished = workers[w].finished
  /\ jobOf(Mgr, w).state = "running"
  /\ downloads'[workers[w].d].chunks[workers[w].c].state = "running"

\* the step is a call of pause or stop for the download of worker w, which
\* takes the download out of the queue
Interferes(w) ==
  /\ \E i \in DOMAIN mQueue : mQueue[i] = workers[w].d
  /\ \A i \in DOMAIN mQueue' : mQueue'[i] # workers[w].d

\* a restarted worker whose job has a size left waits for the end of its
\* stream, which is due: nothing is left to send and the response flows
EndIsDue ==
  \A w \in WorkerIds :
    Restarting(w) /\ jobOf(Mgr, w).size > 0 =>
      /\ workers[w].pc = "stream" /\ workers[w].toSend = 0
      /\ ~workers[w].responsePaused /\ ~workers[w].mRedirected

\* C34: restart() on a worker does not invoke the finish callback and does
\* not free the slot of the worker; the end of the aborted stream is due,
\* and when it comes the worker has flushed its buffer and, if the size of
\* the job is still > 0, starts the same job again with a request from its
\* current offset, and the chunk stays in state running throughout.
C34_RestartReissues ==
  /\ []EndIsDue
  /\ [][\A w \in WorkerIds :
          /\ Restarts(w) => KeepsRunning(w) /\ ~workers'[w].mEnded
          /\ Restarting(w) /\ ~Interferes(w) /\ jobOf(Mgr, w).size > 0
               => KeepsRunning(w) /\ ~workers'[w].mEnded
          /\ Restarting(w) /\ ~Interferes(w) /\ jobOf(Mgr, w).size > 0
               /\ workers'[w].pc # workers[w].pc
               => StartsAgain(w)
          /\ StartsAgain(w) =>
               /\ jobOf(Mgr, w).size > 0
               /\ workers'[w].buffered = 0 /\ workers'[w].pc = "url"
               /\ workers'[w].d = workers[w].d /\ workers'[w].c = workers[w].c
          /\ RangeAnswered(w) => workers'[w].srcPos = jobOf(Mgr, w).offset]_vars

\* a restarted worker has issued its request again, for the rest of its job
C34_Witness ==
  \E w \in WorkerIds :
    /\ workers[w].live /\ workers[w].streak > SLOW_LIMIT
    /\ ~workers[w].mRestart /\ ~workers[w].mEnded
    /\ workers[w].pc = "request" /\ w \in mBusyWorkers
    /\ jobOf(Mgr, w).state = "running" /\ jobOf(Mgr, w).offset > 1

(***************************************************************************)
(* C35: which chunk carries which response callback (lines 713-717,        *)
(* 859-881, 1082-1096, 1115-1144).                                         *)
(***************************************************************************)
\* the first chunk of download d carries updateDownload
FirstUpdatesDownload(d) ==
  downloads[d].chunks[1].responseCB = "updateDownload"

\* every other chunk of download d carries updateDownloadSize
OthersUpdateSize(d) ==
  \A i \in DOMAIN downloads[d].chunks :
    i > 1 => downloads[d].chunks[i].responseCB = "updateDownloadSize"

\* C35: in every download, whether created by enqueue or by resume, exactly
\* one chunk, the first, carries the response callback updateDownload and
\* every other chunk carries updateDownloadSize.
C35_OneChunkUpdatesDownload ==
  \A d \in DlIds :
    downloads[d].used /\ downloads[d].chunks # <<>> =>
      FirstUpdatesDownload(d) /\ OthersUpdateSize(d)

\* the same of the downloads that start as enqueue starts them
C35_FreshDownloads ==
  \A d \in DlIds :
    downloads[d].used /\ downloads[d].chunks # <<>> /\ ret[d].fresh =>
      FirstUpdatesDownload(d) /\ OthersUpdateSize(d)

\* the first chunk of every download carries updateDownload
C35_FirstChunk ==
  \A d \in DlIds :
    downloads[d].used /\ downloads[d].chunks # <<>> => FirstUpdatesDownload(d)

(***************************************************************************)
(* C36: the writes of one worker (lines 330-359, 526-551).                 *)
(***************************************************************************)
\* C36: at most one call of dataCB is in flight per worker at any time, also
\* when the stream of the response ends, or a restart completes, while a
\* write that handleData started has not been acknowledged.
C36_OneWriteInFlight ==
  \A w \in WorkerIds : workers[w].live => Len(workers[w].inFlight) <= 1

(***************************************************************************)
(* C37: a cookie lookup that fails (lines 171-183).                        *)
(***************************************************************************)
\* the step settles the cookie lookup worker w waits for
CookieLookupSettles(w) ==
  /\ Waiting(w, {"cookies"})
  /\ workers'[w].live /\ workers'[w].pc # "cookies"

\* the step is the call of assignJob in which the cookie lookup of worker w
\* throws
CookieLookupThrows(w) ==
  /\ Waiting(w, {"url"}) /\ ~workers[w].mEnded /\ jobOf(Mgr, w).size > 0
  /\ workers'[w].live /\ workers'[w].pc \notin {"url", "cookies"}
  /\ workers'[w].finished = workers[w].finished

\* C37: when the cookie lookup for the url of a job has failed, by throwing
\* or by a rejected promise, the worker has issued its request all the same,
\* so that a response, an error or the finish callback is to follow.
C37_CookieFailureStillRequests ==
  [][\A w \in WorkerIds :
       CookieLookupSettles(w) \/ CookieLookupThrows(w) =>
         workers'[w].pc = "request"]_vars

\* the same of the lookup that throws only
C37_ThrowStillRequests ==
  [][\A w \in WorkerIds :
       CookieLookupThrows(w) => workers'[w].pc = "request"]_vars

\* a worker whose lookup threw has issued its request
C37_ThrowWitness ==
  \E w \in WorkerIds :
    /\ Waiting(w, {"request"}) /\ ~workers[w].mEnded
    /\ workers[w].retries = 0 /\ workers[w].mRedirectsFollowed = 0

(***************************************************************************)
(* C38: a download after its terminal callback (lines 883-893, 1149-1210). *)
(***************************************************************************)
InQueue(d) == \E i \in DOMAIN mQueue : mQueue[i] = d

\* finishCB or failedCB of download d has been invoked
Terminated(d) ==
  downloads[d].used /\ downloads[d].finishCB + downloads[d].failedCB > 0

\* C38: once finishCB or failedCB of a download has been invoked the
\* download is no longer in the queue of the manager, so that no later tick
\* starts a worker for it and a later stop(id) or pause(id) does not find it.
C38_TerminatedLeavesQueue ==
  \A d \in DlIds : Terminated(d) => ~InQueue(d)

(***************************************************************************)
(* C39: the order in which a tick hands out the slots (lines 895-928).     *)
(***************************************************************************)
\* C39: a tick of the scheduler hands out the slots in the order of the
\* queue: it starts a chunk of a download only when no download earlier in
\* the queue still has a chunk in state init, and when the tick ends either
\* no download of the queue has a chunk in state init or as many chunks were
\* started as slots were counted free when the tick began.
C39_TickInQueueOrder ==
  \A d \in DlIds : downloads[d].used => ~downloads[d].outOfOrder

\* a tick has started the chunks of the first download of the queue and
\* left a chunk of the second in state init for want of a slot
C39_Witness ==
  /\ Len(mQueue) > 1
  /\ \E i \in chunkIdx(Mgr, mQueue[1]) :
       downloads[mQueue[1]].chunks[i].state = "running"
  /\ countInit(Mgr, mQueue[1]) = 0
  /\ countInit(Mgr, mQueue[2]) > 0
  /\ mNextId = mMaxWorkers

(***************************************************************************)
(* C40: a rename to the server's name that fails (lines 1029-1056).        *)
(***************************************************************************)
\* the step is the failure of the rename of download d
RenameFails(d) ==
  downloads[d].rename.pc = "renaming" /\ downloads'[d].rename.pc = "failed"

\* no worker of download d is ended or finished by the step
NoWorkerCancelled(d) ==
  \A w \in WorkerIds :
    workers[w].live /\ workers[w].d = d =>
      /\ workers'[w].mEnded = workers[w].mEnded
      /\ workers'[w].finished = workers[w].finished
      /\ workers'[w].pc = workers[w].pc

\* C40: when the rename of the open assembler to the newly reserved name the
\* server supplied fails, tempName is set back to the value it had before,
\* the newly reserved file is removed, finalName stays unset, and the
\* download is not failed: failedCB is not called and no worker is
\* cancelled.
C40_RenameFailureReverts ==
  [][\A d \in DlIds :
       RenameFails(d) =>
         /\ downloads'[d].tempName = downloads[d].rename.oldTempName
         /\ downloads'[d].tempName # downloads[d].rename.resolvedName
         /\ downloads[d].rename.resolvedName \in fs
         /\ downloads[d].rename.resolvedName \notin fs'
         /\ downloads'[d].finalName = NoName
         /\ downloads'[d].failedCB = downloads[d].failedCB
         /\ downloads'[d].chunks = downloads[d].chunks
         /\ NoWorkerCancelled(d)]_vars

\* a rename has failed and the download went on to its end under its name
C40_Witness ==
  \E d \in DlIds :
    /\ downloads[d].used /\ downloads[d].rename.pc = "failed"
    /\ downloads[d].tempName = ModZip /\ downloads[d].finalName = NoName
    /\ downloads[d].rename.resolvedName \notin fs
    /\ downloads[d].finishCB > 0 /\ downloads[d].failedCB = 0

=============================================================================
